---- MODULE Spec2Model ----
(***************************************************************************)
(* Model of the code chunker of codebase-qa (backend/utils/code_parser.py) *)
(* and of the operations of backend/main.py that drive it.                 *)
(*                                                                         *)
(* A file text is a sequence of tokens.  A token stands for the run of     *)
(* characters written in its name ("class A " is the eight characters      *)
(* c,l,a,s,s,space,A,space); "\n" is the newline character and "FF" the    *)
(* form feed \x0c.  Offsets are 0-based as in Python and count tokens.     *)
(***************************************************************************)
EXTENDS Integers, Sequences, FiniteSets, TLC

VARIABLES
    pc,          \* where the modelled caller stands
    file,        \* Spec: the file parse_file is called on
    result,      \* Spec: what parse_file did
    btext,       \* SpecBrace: the text given to find_matching_brace
    bstart,      \* SpecBrace: the offset given to it
    bresult,     \* SpecBrace: the offset it returned
    dir,         \* SpecCodebase: the files below base_path
    files,       \* SpecCodebase: the list scan_files returned
    idx,         \* SpecCodebase: the index of the loop of parse_codebase
    base_path,   \* SpecCodebase: the directory given to scan_files
    all_chunks,  \* SpecCodebase: all_chunks of parse_codebase
    request,     \* SpecIndex: the IndexRequest being served
    project_name,\* SpecIndex: project_name of the run
    progress,    \* SpecIndex: _index_progress (main.py:72-80)
    store,       \* SpecIndex: the records of the Chroma collection
    embeddings,  \* SpecIndex: embeddings of the run
    response,    \* SpecIndex: the answer to the last request
    added,       \* SpecIndex: the retriever.add calls of the run, in order
    budget,      \* SpecIndex, SpecQuery: requests the clients still send
    llm,         \* SpecQuery: what the LLM does with the prompt
    events,      \* SpecQuery: the events of the stream, in order
    query_logs,  \* SpecQuery: the entries of LOG_FILE
    llm_model,   \* SpecModels: the model of _llm, "none" while _llm is None
    chains,      \* SpecModels: the RAGChain objects made so far, _rag_chain last
    inflight,    \* SpecModels: the stream generator that has not run yet
    retrieval    \* SpecModels: the last retriever.query call

vars ==
    <<pc, file, result, btext, bstart, bresult, dir, files, idx, base_path, all_chunks,
      request, project_name, progress, store, embeddings, response, added, budget,
      llm, events, query_logs, llm_model, chains, inflight, retrieval>>

braceVars == <<btext, bstart, bresult>>
fileVars == <<file, result>>
codebaseVars == <<dir, files, idx, base_path, all_chunks>>
indexVars == <<request, project_name, progress, store, embeddings, response, added>>
modelVars == <<llm_model, chains, inflight, retrieval>>
queryVars == <<llm, events, query_logs, modelVars>>
serverVars == <<indexVars, queryVars, budget>>

(***************************************************************************)
(* Bounds of the model.                                                    *)
(***************************************************************************)
MaxBraceLen == 5
MaxTextLen == 5
MaxPyLines == 3
MaxPyIndent == 2
MaxFiles == 2
MaxNestedLen == 3
MaxProgressFiles == 50

(***************************************************************************)
(* Python string primitives on token sequences.                            *)
(***************************************************************************)
\* content[i]
At(content, i) == content[i + 1]

\* content[a:b]
Slice(content, a, b) == SubSeq(content, a + 1, b)

\* content[:off].count('\n')
CountNewlines(content, off) == Cardinality({i \in 1..off : content[i] = "\n"})

\* a slip: the character at off counted too, content[:off + 1].count('\n') + 1
LineOfOffsetThrough(content, off) ==
    CountNewlines(content, IF off + 1 > Len(content) THEN Len(content) ELSE off + 1) + 1

\* content[:off].count('\n') + 1
LineOfOffset(content, off) == CountNewlines(content, off) + 1

\* content.find(tok, from): least offset >= from holding tok, else -1
Find(content, tok, from) ==
    LET hits == {i \in from..(Len(content) - 1) : At(content, i) = tok}
    IN  IF hits = {} THEN -1 ELSE CHOOSE i \in hits : \A j \in hits : i <= j

\* All sequences over S of length lo..hi
SeqsOf(S, lo, hi) == UNION {[1..n -> S] : n \in lo..hi}

(***************************************************************************)
(* find_matching_brace (code_parser.py:222-250)                            *)
(***************************************************************************)
\* a slip: answer -1, as str.find does, when the loop finds no match
NotFoundOffsetMinusOne(content) == -1

\* the return after the loop: return len(content) - 1
NotFoundOffset(content) == Len(content) - 1

\* the loop, from offset i on
RECURSIVE fmb_loop(_, _, _, _, _)
fmb_loop(content, i, brace_count, in_string, string_char) ==
    IF ~(i < Len(content)) THEN NotFoundOffset(content)
    ELSE
      LET char == At(content, i)
          isQuote == char \in {"\"", "'"} /\ (i = 0 \/ At(content, i - 1) # "\\")
          in_string2 == IF isQuote
                        THEN (IF ~in_string THEN TRUE
                              ELSE IF char = string_char THEN FALSE
                              ELSE in_string)
                        ELSE in_string
          string_char2 == IF isQuote /\ ~in_string THEN char ELSE string_char
          brace_count2 == IF in_string2 THEN brace_count
                          ELSE IF char = "{" THEN brace_count + 1
                          ELSE IF char = "}" THEN brace_count - 1
                          ELSE brace_count
      IN  IF ~in_string2 /\ char = "}" /\ brace_count2 = 0
          THEN i
          ELSE fmb_loop(content, i + 1, brace_count2, in_string2, string_char2)

\* a slip: the test content[i-1] != '\\' left out, so that every quote
\* toggles the literal state (the loop runs on the text with its
\* backslashes replaced by a letter)
find_matching_brace_NoEscape(content, start_pos) ==
    fmb_loop([k \in 1..Len(content) |-> IF content[k] = "\\" THEN "a" ELSE content[k]],
             start_pos, 0, FALSE, "None")

find_matching_brace(content, start_pos) ==
    fmb_loop(content, start_pos, 0, FALSE, "None")

(***************************************************************************)
(* Paths (pathlib.Path).  A path is the token sequence of str(filepath):   *)
(* "/" separates components, a token starting with "." is an extension     *)
(* segment of a file name.                                                 *)
(***************************************************************************)
ExtTokens == {".py", ".java", ".vue", ".js", ".txt"}

LastIndexIn(s, S) ==
    LET hits == {i \in 1..Len(s) : s[i] \in S}
    IN  IF hits = {} THEN 0 ELSE CHOOSE i \in hits : \A j \in hits : j <= i

\* filepath.name: the tokens after the last "/"
PathName(filepath) == SubSeq(filepath, LastIndexIn(filepath, {"/"}) + 1, Len(filepath))

\* filepath.suffix: the name from its last "." on, "" when there is none or
\* the name starts with it
PathSuffix(filepath) ==
    LET name == PathName(filepath)
        i == LastIndexIn(name, ExtTokens)
    IN  IF i <= 1 THEN <<>> ELSE SubSeq(name, i, Len(name))

\* filepath.stem: the name without its suffix
PathStem(filepath) ==
    LET name == PathName(filepath)
        i == LastIndexIn(name, ExtTokens)
    IN  IF i <= 1 THEN name ELSE SubSeq(name, 1, i - 1)

\* code_parser.py:24
SUPPORTED_EXTENSIONS == {<<".java">>, <<".py">>, <<".vue">>, <<".js">>}

\* code_parser.py:34-39, with .get(extension, "unknown")
EXTENSION_TO_LANGUAGE(extension) ==
    IF extension = <<".java">> THEN "java"
    ELSE IF extension = <<".py">> THEN "python"
    ELSE IF extension = <<".vue">> THEN "vue"
    ELSE IF extension = <<".js">> THEN "javascript"
    ELSE "unknown"

\* code_parser.py:21
CODE_BASE_PATH == <<"/", "code">>

\* get_project_name: the first component of filepath relative to
\* CODE_BASE_PATH, "unknown" when filepath is not below it
get_project_name(filepath) ==
    LET n == Len(CODE_BASE_PATH)
    IN  IF /\ Len(filepath) >= n + 2
           /\ SubSeq(filepath, 1, n) = CODE_BASE_PATH
           /\ filepath[n + 1] = "/"
        THEN LET rest == SubSeq(filepath, n + 2, Len(filepath))
                 cut == {i \in 1..Len(rest) : rest[i] = "/"}
                 stop == IF cut = {} THEN Len(rest) + 1
                         ELSE CHOOSE i \in cut : \A j \in cut : i <= j
             IN  SubSeq(rest, 1, stop - 1)
        ELSE <<"unknown">>

(***************************************************************************)
(* CodeChunk (code_parser.py:42-71)                                        *)
(***************************************************************************)
CodeChunk(content, filepath, language, project, chunk_type, name, start_line, end_line, metadata) ==
    [content |-> content, filepath |-> filepath, language |-> language,
     project |-> project, chunk_type |-> chunk_type, name |-> name,
     start_line |-> start_line, end_line |-> end_line, metadata |-> metadata]

NoMetadata == [k \in {} |-> ""]

\* CodeChunk.id: f"{self.filepath}::{self.name}::{self.start_line}"
ChunkId(chunk) ==
    chunk.filepath \o <<"::">> \o chunk.name \o <<"::">> \o <<ToString(chunk.start_line)>>

(***************************************************************************)
(* str.splitlines, str.strip, str.join                                     *)
(***************************************************************************)
\* the characters \s matches and strip() removes
Whitespace == {" ", "    ", "\n", "FF"}

\* the line boundaries of str.splitlines that occur in the model's texts
LineBreaks == {"\n", "FF"}

\* the lines of content, ended by the tokens of breaks (a last line needs none)
RECURSIVE SplitLinesOn(_, _, _, _)
SplitLinesOn(content, breaks, i, cur) ==
    IF i > Len(content) THEN (IF cur = <<>> THEN <<>> ELSE <<cur>>)
    ELSE IF content[i] \in breaks
         THEN <<cur>> \o SplitLinesOn(content, breaks, i + 1, <<>>)
         ELSE SplitLinesOn(content, breaks, i + 1, Append(cur, content[i]))

\* content.splitlines()
splitlines(content) == SplitLinesOn(content, LineBreaks, 1, <<>>)

\* content.strip() is not empty
StripNonEmpty(content) == \E i \in 1..Len(content) : content[i] \notin Whitespace

\* "\n".join(ls)
RECURSIVE JoinLines(_)
JoinLines(ls) ==
    IF ls = <<>> THEN <<>>
    ELSE IF Len(ls) = 1 THEN ls[1]
    ELSE ls[1] \o <<"\n">> \o JoinLines(Tail(ls))

\* least element of a non-empty set of integers
Min(S) == CHOOSE i \in S : \A j \in S : i <= j

\* index after the run of tokens of S that starts at offset p
SkipRun(content, p, S) ==
    LET stops == {i \in p..(Len(content) - 1) : At(content, i) \notin S}
    IN  IF stops = {} THEN Len(content) ELSE Min(stops)

\* re.MULTILINE '^' at offset p
AtLineStart(content, p) == p = 0 \/ At(content, p - 1) = "\n"

\* a slip: the last line taken as content.count('\n') + 1
FallbackChunkByNewlines(filepath, content, language, chunk_type, metadata) ==
    CodeChunk(content, filepath, language, get_project_name(filepath),
              chunk_type, PathStem(filepath), 1,
              CountNewlines(content, Len(content)) + 1, metadata)

\* the whole-file chunk every extractor falls back to
FallbackChunk(filepath, content, language, chunk_type, metadata) ==
    CodeChunk(content, filepath, language, get_project_name(filepath),
              chunk_type, PathStem(filepath), 1, Len(splitlines(content)), metadata)

(***************************************************************************)
(* parse_java (code_parser.py:205-306)                                     *)
(***************************************************************************)
\* the declaration tokens JAVA_CLASS_PATTERN's groups 3 and 4 match
JavaTypeHeaders == {"class A ", "interface B "}
JavaHeaderType(tok) == IF tok = "class A " THEN "class" ELSE "interface"
JavaHeaderName(tok) == IF tok = "class A " THEN <<"A">> ELSE <<"B">>

\* JAVA_CLASS_PATTERN matched at offset p: ^(\s*)((?:modifier|\s)*)(type)\s+(\w+)
\* (the texts of the model hold no modifier)
JavaMatchAt(content, p) ==
    LET q == SkipRun(content, p, Whitespace)
    IN  IF AtLineStart(content, p) /\ q < Len(content) /\ At(content, q) \in JavaTypeHeaders
        THEN [start |-> p, end |-> q + 1, head |-> At(content, q)]
        ELSE [start |-> -1, end |-> -1, head |-> ""]

\* pattern.finditer(content): leftmost matches, each search resuming at the
\* end of the match before it
RECURSIVE JavaFindIter(_, _)
JavaFindIter(content, pos) ==
    LET starts == {p \in pos..(Len(content) - 1) : JavaMatchAt(content, p).start # -1}
    IN  IF starts = {} THEN <<>>
        ELSE LET m == JavaMatchAt(content, Min(starts))
             IN  <<m>> \o JavaFindIter(content, m.end)

\* the chunk of one match; <<>> when no '{' follows (continue)
JavaChunkOf(filepath, content, m) ==
    LET start_pos == m.start
        start_line == LineOfOffset(content, start_pos)
        brace_pos == Find(content, "{", m.end)
    IN  IF brace_pos = -1 THEN <<>>
        ELSE LET end_pos == find_matching_brace(content, brace_pos)
                 end_line == LineOfOffset(content, end_pos)
             IN  <<CodeChunk(Slice(content, start_pos, end_pos + 1), filepath, "java",
                             get_project_name(filepath), JavaHeaderType(m.head),
                             JavaHeaderName(m.head), start_line, end_line,
                             [modifiers |-> ""])>>

RECURSIVE JavaChunks(_, _, _)
JavaChunks(filepath, content, ms) ==
    IF ms = <<>> THEN <<>>
    ELSE JavaChunkOf(filepath, content, Head(ms)) \o JavaChunks(filepath, content, Tail(ms))

\* a slip: JAVA_METHOD_PATTERN searched too, and the first method made a
\* chunk
parse_java_WithMethods(filepath, content) ==
    LET chunks == JavaChunks(filepath, content, JavaFindIter(content, 0))
        p == Find(content, "void m()", 0)
        methods == IF p = -1 THEN <<>>
                   ELSE <<CodeChunk(Slice(content, p, Len(content)), filepath, "java",
                                    get_project_name(filepath), "method", <<"m">>,
                                    LineOfOffset(content, p),
                                    LineOfOffset(content, Len(content) - 1), NoMetadata)>>
    IN  IF chunks \o methods = <<>>
        THEN <<FallbackChunk(filepath, content, "java", "file", NoMetadata)>>
        ELSE chunks \o methods

parse_java(filepath, content) ==
    LET chunks == JavaChunks(filepath, content, JavaFindIter(content, 0))
    IN  IF chunks = <<>>
        THEN <<FallbackChunk(filepath, content, "java", "file", NoMetadata)>>
        ELSE chunks

(***************************************************************************)
(* parse_vue (code_parser.py:313-387)                                      *)
(***************************************************************************)
\* pattern.search(content) for <open[^>]*>(.*?)</close> with re.DOTALL: the
\* leftmost opening tag that a closing tag follows, up to the first such
\* closing tag
VueSearch(content, open, close) ==
    LET starts == {p \in 0..(Len(content) - 1) :
                     At(content, p) = open /\ Find(content, close, p + 1) # -1}
    IN  IF starts = {} THEN [start |-> -1, end |-> -1]
        ELSE [start |-> Min(starts), end |-> Find(content, close, Min(starts) + 1) + 1]

VueSectionChunk(filepath, content, m, section) ==
    IF m.start = -1 THEN <<>>
    ELSE <<CodeChunk(Slice(content, m.start, m.end), filepath, "vue",
                     get_project_name(filepath), section,
                     PathStem(filepath) \o <<"::", section>>,
                     LineOfOffset(content, m.start), LineOfOffset(content, m.end),
                     [section |-> section])>>

\* a slip: VUE_STYLE_PATTERN searched too and its section made a chunk
parse_vue_WithStyle(filepath, content) ==
    LET chunks == VueSectionChunk(filepath, content, VueSearch(content, "<script>", "</script>"), "script")
                  \o VueSectionChunk(filepath, content, VueSearch(content, "<template>", "</template>"), "template")
                  \o VueSectionChunk(filepath, content, VueSearch(content, "<style>", "</style>"), "style")
    IN  IF chunks = <<>>
        THEN <<FallbackChunk(filepath, content, "vue", "component", NoMetadata)>>
        ELSE chunks

parse_vue(filepath, content) ==
    LET script_match == VueSearch(content, "<script>", "</script>")
        template_match == VueSearch(content, "<template>", "</template>")
        chunks == VueSectionChunk(filepath, content, script_match, "script")
                  \o VueSectionChunk(filepath, content, template_match, "template")
    IN  IF chunks = <<>>
        THEN <<FallbackChunk(filepath, content, "vue", "component", NoMetadata)>>
        ELSE chunks

(***************************************************************************)
(* parse_javascript (code_parser.py:394-498)                               *)
(***************************************************************************)
\* the declaration tokens of JS_CLASS_PATTERN, JS_FUNCTION_PATTERN and
\* JS_ARROW_FUNCTION_PATTERN between ^(\s*) and \s*\{
JS_CLASS_PATTERN == {"class A "}
JS_FUNCTION_PATTERN == {"function A()"}
JS_ARROW_FUNCTION_PATTERN == {"const A=()=>"}
JsHeaderName(tok) == <<"A">>

\* a pattern matched at offset p: ^(\s*) declaration \s*\{
JsMatchAt(content, pattern, p) ==
    LET q == SkipRun(content, p, Whitespace)
        b == SkipRun(content, q + 1, Whitespace)
    IN  IF /\ AtLineStart(content, p)
           /\ q < Len(content) /\ At(content, q) \in pattern
           /\ b < Len(content) /\ At(content, b) = "{"
        THEN [start |-> p, end |-> b + 1, head |-> At(content, q)]
        ELSE [start |-> -1, end |-> -1, head |-> ""]

RECURSIVE JsFindIter(_, _, _)
JsFindIter(content, pattern, pos) ==
    LET starts == {p \in pos..(Len(content) - 1) : JsMatchAt(content, pattern, p).start # -1}
    IN  IF starts = {} THEN <<>>
        ELSE LET m == JsMatchAt(content, pattern, Min(starts))
             IN  <<m>> \o JsFindIter(content, pattern, m.end)

JsChunkOf(filepath, content, m, chunk_type) ==
    LET start_pos == m.start
        start_line == LineOfOffset(content, start_pos)
        brace_pos == Find(content, "{", m.end - 1)
        end_pos == find_matching_brace(content, brace_pos)
        end_line == LineOfOffset(content, end_pos)
    IN  CodeChunk(Slice(content, start_pos, end_pos + 1), filepath, "javascript",
                  get_project_name(filepath), chunk_type, JsHeaderName(m.head),
                  start_line, end_line, NoMetadata)

RECURSIVE JsChunks(_, _, _, _)
JsChunks(filepath, content, ms, chunk_type) ==
    IF ms = <<>> THEN <<>>
    ELSE <<JsChunkOf(filepath, content, Head(ms), chunk_type)>>
         \o JsChunks(filepath, content, Tail(ms), chunk_type)

\* a slip: the chunks of the three searches put in the order of their
\* positions in the text
RECURSIVE JsInsertByLine(_, _)
JsInsertByLine(sorted, c) ==
    IF sorted = <<>> THEN <<c>>
    ELSE IF c.start_line < Head(sorted).start_line THEN <<c>> \o sorted
    ELSE <<Head(sorted)>> \o JsInsertByLine(Tail(sorted), c)

RECURSIVE JsSortByPosition(_)
JsSortByPosition(chunks) ==
    IF chunks = <<>> THEN <<>>
    ELSE JsInsertByLine(JsSortByPosition(Tail(chunks)), Head(chunks))

parse_javascript_Resorted(filepath, content) ==
    LET chunks ==
            JsChunks(filepath, content, JsFindIter(content, JS_CLASS_PATTERN, 0), "class")
         \o JsChunks(filepath, content, JsFindIter(content, JS_FUNCTION_PATTERN, 0), "function")
         \o JsChunks(filepath, content, JsFindIter(content, JS_ARROW_FUNCTION_PATTERN, 0), "function")
    IN  IF chunks = <<>>
        THEN <<FallbackChunk(filepath, content, "javascript", "file", NoMetadata)>>
        ELSE JsSortByPosition(chunks)

parse_javascript(filepath, content) ==
    LET chunks ==
            JsChunks(filepath, content, JsFindIter(content, JS_CLASS_PATTERN, 0), "class")
         \o JsChunks(filepath, content, JsFindIter(content, JS_FUNCTION_PATTERN, 0), "function")
         \o JsChunks(filepath, content, JsFindIter(content, JS_ARROW_FUNCTION_PATTERN, 0), "function")
    IN  IF chunks = <<>>
        THEN <<FallbackChunk(filepath, content, "javascript", "file", NoMetadata)>>
        ELSE chunks

(***************************************************************************)
(* parse_python (code_parser.py:111-198)                                   *)
(*                                                                         *)
(* The Python texts of the model are made of the lines                     *)
(*   indent* "class A:"       a class statement, its body on later lines   *)
(*   indent* "def f():"       a function statement, body on later lines    *)
(*   indent* "def f(): pass"  a function statement with its body inline    *)
(*   indent* "pass"           a simple statement                           *)
(*   ""  and  "FF"            a blank line and a page-break line           *)
(* each ended by "\n".  ast.parse is its grammar on these lines.           *)
(***************************************************************************)
PyIndent == "    "
PyHeaders == {"class A:", "def f():"}
PyDefs == {"def f():", "def f(): pass"}

\* the physical lines of the tokenizer: only "\n" ends a line
PyPhysicalLines(content) == SplitLinesOn(content, {"\n"}, 1, <<>>)

\* the statement of a line, after leading blanks and form feeds
PyLineBody(line) ==
    LET q == SkipRun(line, 0, {PyIndent, " ", "FF"})
    IN  Slice(line, q, Len(line))

PyLineBlank(line) == PyLineBody(line) = <<>>

\* the indentation column of a line: a form feed resets it
PyLineIndent(line) ==
    LET q == SkipRun(line, 0, {PyIndent, " ", "FF"})
        ff == {i \in 1..q : line[i] = "FF"}
        from == IF ff = {} THEN 0 ELSE CHOOSE i \in ff : \A j \in ff : j <= i
    IN  Cardinality({i \in (from + 1)..q : line[i] = PyIndent})

\* the indent stack without the levels deeper than d
RECURSIVE PyPopTo(_, _)
PyPopTo(stack, d) ==
    IF Len(stack) > 1 /\ stack[Len(stack)] > d
    THEN PyPopTo(SubSeq(stack, 1, Len(stack) - 1), d)
    ELSE stack

\* ast.parse succeeds: no IndentationError on the lines from i on; stack is
\* the indent stack, expect says that the line before opened a block
RECURSIVE PyWellFormed(_, _, _, _)
PyWellFormed(lines, i, stack, expect) ==
    IF i > Len(lines) THEN ~expect
    ELSE IF PyLineBlank(lines[i]) THEN PyWellFormed(lines, i + 1, stack, expect)
    ELSE
      LET d == PyLineIndent(lines[i])
          top == stack[Len(stack)]
          opens == PyLineBody(lines[i])[1] \in PyHeaders
      IN  IF expect
          THEN d > top /\ PyWellFormed(lines, i + 1, Append(stack, d), opens)
          ELSE /\ d <= top
               /\ LET popped == PyPopTo(stack, d)
                  IN  /\ popped[Len(popped)] = d
                      /\ PyWellFormed(lines, i + 1, popped, opens)

\* a slip: the outermost statement around line i taken for its parent, so
\* that a function anywhere inside a class counts as its method
PyOutermostLine(lines, i) ==
    LET d == PyLineIndent(lines[i])
        above == {h \in 1..(i - 1) : ~PyLineBlank(lines[h]) /\ PyLineIndent(lines[h]) = 0}
    IN  IF d = 0 \/ above = {} THEN 0 ELSE CHOOSE h \in above : \A j \in above : j <= h

\* the line of the statement whose body holds line i, 0 at top level
PyParentLine(lines, i) ==
    LET d == PyLineIndent(lines[i])
        above == {h \in 1..(i - 1) : ~PyLineBlank(lines[h]) /\ PyLineIndent(lines[h]) < d}
    IN  IF above = {} THEN 0 ELSE CHOOSE h \in above : \A j \in above : j <= h

\* node.end_lineno of the statement at line i
PyEndLine(lines, i) ==
    LET d == PyLineIndent(lines[i])
        closing == {k \in (i + 1)..Len(lines) :
                      ~PyLineBlank(lines[k]) /\ PyLineIndent(lines[k]) <= d}
        stop == IF closing = {} THEN Len(lines) + 1 ELSE Min(closing)
        body == {k \in i..(stop - 1) : ~PyLineBlank(lines[k])}
    IN  CHOOSE k \in body : \A j \in body : j <= k

\* the depth of the node of line i in the tree
RECURSIVE PyDepth(_, _)
PyDepth(lines, i) ==
    IF PyParentLine(lines, i) = 0 THEN 1
    ELSE 1 + PyDepth(lines, PyParentLine(lines, i))

\* the chunk parse_python makes of the node at line i, <<>> when it makes none
PyChunkOf(filepath, content, lines, i) ==
    LET body == PyLineBody(lines[i])
        start == i - 1
        end == PyEndLine(lines, i)
        text == JoinLines(SubSeq(splitlines(content), start + 1, end))
        parent == PyParentLine(lines, i)
        in_class == parent # 0 /\ PyLineBody(lines[parent])[1] = "class A:"
    IN  IF body[1] = "class A:"
        THEN <<CodeChunk(text, filepath, "python", get_project_name(filepath),
                         "class", <<"A">>, i, end,
                         [decorators |-> <<>>, bases |-> <<>>])>>
        ELSE IF body[1] \in PyDefs /\ ~in_class
        THEN <<CodeChunk(text, filepath, "python", get_project_name(filepath),
                         "function", <<"f">>, i, end,
                         [decorators |-> <<>>, args |-> <<>>, is_async |-> "False"])>>
        ELSE <<>>

\* the chunks of the nodes in the order of ast.walk: breadth first, so by
\* depth and then by line
RECURSIVE PyWalk(_, _, _, _, _)
PyWalk(filepath, content, lines, depth, i) ==
    IF depth > Len(lines) THEN <<>>
    ELSE IF i > Len(lines) THEN PyWalk(filepath, content, lines, depth + 1, 1)
    ELSE (IF ~PyLineBlank(lines[i]) /\ PyDepth(lines, i) = depth
          THEN PyChunkOf(filepath, content, lines, i)
          ELSE <<>>)
         \o PyWalk(filepath, content, lines, depth, i + 1)

\* a slip: the fallback chunk of a syntax error made without the
\* parse_error entry of its metadata
parse_python_NoParseError(filepath, content) ==
    LET lines == PyPhysicalLines(content)
        chunks == PyWalk(filepath, content, lines, 1, 1)
    IN  IF ~PyWellFormed(lines, 1, <<0>>, FALSE) \/ chunks = <<>>
        THEN <<FallbackChunk(filepath, content, "python", "file", NoMetadata)>>
        ELSE chunks

parse_python(filepath, content) ==
    LET lines == PyPhysicalLines(content)
    IN  IF ~PyWellFormed(lines, 1, <<0>>, FALSE)
        THEN <<FallbackChunk(filepath, content, "python", "file",
                             [parse_error |-> "SyntaxError"])>>
        ELSE LET chunks == PyWalk(filepath, content, lines, 1, 1)
             IN  IF chunks = <<>>
                 THEN <<FallbackChunk(filepath, content, "python", "file", NoMetadata)>>
                 ELSE chunks

(***************************************************************************)
(* parse_file (code_parser.py:505-529)                                     *)
(*                                                                         *)
(* file.status is the outcome of filepath.read_text(encoding="utf-8"):     *)
(* "ok" with the text, or the exception it raises.  The result records the *)
(* exception that leaves parse_file ("none" when it returns), the          *)
(* extractor it invoked and the list it returns.                           *)
(***************************************************************************)
\* no file read and parse_file not called yet
NoFile == [path |-> <<>>, status |-> "none", text |-> <<>>]
NoResult == [raised |-> "none", invoked |-> "none", chunks |-> <<>>]

\* the variables of the other specifications, at rest
NoBrace == btext = <<>> /\ bstart = 0 /\ bresult = -2
NoCodebase == dir = {} /\ files = <<>> /\ idx = 0 /\ base_path = <<>> /\ all_chunks = <<>>
NoModels == llm_model = "none" /\ chains = <<>> /\ inflight = <<>> /\ retrieval = <<>>
NoQuery == llm = "none" /\ events = <<>> /\ query_logs = <<>> /\ NoModels
NoIndex ==
    /\ request = <<>> /\ project_name = <<>> /\ progress = <<>> /\ store = {}
    /\ embeddings = <<>> /\ response = <<>> /\ added = <<>>
NoServer == NoIndex /\ NoQuery /\ budget = 0

ReadErrors == {"UnicodeDecodeError", "PermissionError", "FileNotFoundError", "OSError"}

\* the exceptions the except clause of parse_file names
CaughtReadErrors == {"UnicodeDecodeError", "PermissionError", "FileNotFoundError"}

\* a slip: the last branch of the dispatch hands the file to parse_python
parse_file_DefaultsToPython(f) ==
    IF f.status \in CaughtReadErrors
    THEN [raised |-> "none", invoked |-> "none", chunks |-> <<>>]
    ELSE IF f.status # "ok"
    THEN [raised |-> f.status, invoked |-> "none", chunks |-> <<>>]
    ELSE IF ~StripNonEmpty(f.text)
    THEN [raised |-> "none", invoked |-> "none", chunks |-> <<>>]
    ELSE LET extension == PathSuffix(f.path)
         IN  IF extension = <<".java">>
             THEN [raised |-> "none", invoked |-> "parse_java",
                   chunks |-> parse_java(f.path, f.text)]
             ELSE IF extension = <<".vue">>
             THEN [raised |-> "none", invoked |-> "parse_vue",
                   chunks |-> parse_vue(f.path, f.text)]
             ELSE IF extension = <<".js">>
             THEN [raised |-> "none", invoked |-> "parse_javascript",
                   chunks |-> parse_javascript(f.path, f.text)]
             ELSE [raised |-> "none", invoked |-> "parse_python",
                   chunks |-> parse_python(f.path, f.text)]

parse_file(f) ==
    IF f.status \in CaughtReadErrors
    THEN [raised |-> "none", invoked |-> "none", chunks |-> <<>>]
    ELSE IF f.status # "ok"
    THEN [raised |-> f.status, invoked |-> "none", chunks |-> <<>>]
    ELSE IF ~StripNonEmpty(f.text)
    THEN [raised |-> "none", invoked |-> "none", chunks |-> <<>>]
    ELSE LET extension == PathSuffix(f.path)
         IN  IF extension = <<".py">>
             THEN [raised |-> "none", invoked |-> "parse_python",
                   chunks |-> parse_python(f.path, f.text)]
             ELSE IF extension = <<".java">>
             THEN [raised |-> "none", invoked |-> "parse_java",
                   chunks |-> parse_java(f.path, f.text)]
             ELSE IF extension = <<".vue">>
             THEN [raised |-> "none", invoked |-> "parse_vue",
                   chunks |-> parse_vue(f.path, f.text)]
             ELSE IF extension = <<".js">>
             THEN [raised |-> "none", invoked |-> "parse_javascript",
                   chunks |-> parse_javascript(f.path, f.text)]
             ELSE [raised |-> "none", invoked |-> "none", chunks |-> <<>>]

(***************************************************************************)
(* Specification Spec: parse_file applied to one file.  The file is any    *)
(* path of Paths with any outcome of the read; a text is any sequence of   *)
(* at most MaxTextLen tokens of its language, for Python any sequence of   *)
(* at most MaxPyLines lines, or one of the scenarios of the documentation. *)
(***************************************************************************)
PyPath == <<"/", "code", "/", "proj", "/", "Stem", ".py">>
JavaPath == <<"/", "code", "/", "proj", "/", "Stem", ".java">>
VuePath == <<"/", "code", "/", "proj", "/", "Stem", ".vue">>
JsPath == <<"/", "code", "/", "proj", "/", "Stem", ".js">>
TxtPath == <<"/", "code", "/", "proj", "/", "Stem", ".txt">>
\* a file directly in the codebase root and a file outside of it
RootPyPath == <<"/", "code", "/", "Stem", ".py">>
OutsidePyPath == <<"/", "work", "/", "proj", "/", "Stem", ".py">>
Paths == {PyPath, JavaPath, VuePath, JsPath, TxtPath, RootPyPath, OutsidePyPath}

JavaAlphabet == {"class A ", "interface B ", "\n", "{", "}", "\"", ";"}
JsAlphabet == {"class A ", "function A()", "const A=()=>", "\n", "{", "}", ";"}
VueAlphabet == {"<script>", "</script>", "<template>", "</template>", "<style>", "</style>", "x", "\n"}

\* n indent tokens
RECURSIVE Indents(_)
Indents(n) == IF n = 0 THEN <<>> ELSE <<PyIndent>> \o Indents(n - 1)

PyLineShapes ==
    {Indents(n) \o <<b, "\n">> :
        n \in 0..MaxPyIndent, b \in {"class A:", "def f():", "def f(): pass", "pass"}}
    \cup {<<"\n">>, <<"FF", "\n">>}

RECURSIVE Flatten(_)
Flatten(ls) == IF ls = <<>> THEN <<>> ELSE Head(ls) \o Flatten(Tail(ls))

\* class Foo: / def bar(self): / pass / (blank) / def baz(): / pass
ExamplePyText ==
    <<"class A:", "\n", PyIndent, "def f():", "\n", PyIndent, PyIndent, "pass", "\n",
      "\n", "def f():", "\n", PyIndent, "pass", "\n">>

\* <template><div/></template><script>export default {}</script>
ExampleVueText == <<"<template>", "x", "</template>", "<script>", "x", "</script>">>

\* class Foo { / void bar() {} / }
ExampleJavaText == <<"class A ", "{", "\n", "{", "}", "\n", "}", "\n">>

PyTexts == {Flatten(ls) : ls \in SeqsOf(PyLineShapes, 0, MaxPyLines)} \cup {ExamplePyText}
\* a type, and a function, with more text between the braces of its body;
\* "void m()" is the head of a Java method
NestedJavaTexts ==
    {<<"class A ", "{", "\n">> \o mid \o <<"}">> :
        mid \in SeqsOf({"interface B ", "void m()", "{", "}", "\n", "\""}, 0, MaxNestedLen)}
NestedJsTexts ==
    {<<"function A()", "{", "\n">> \o mid \o <<"}">> :
        mid \in SeqsOf({"function A()", "const A=()=>", "{", "}", "\n"}, 0, MaxNestedLen)}

JavaTexts == SeqsOf(JavaAlphabet, 0, MaxTextLen) \cup {ExampleJavaText} \cup NestedJavaTexts
VueTexts == SeqsOf(VueAlphabet, 0, MaxTextLen) \cup {ExampleVueText}
JsTexts == SeqsOf(JsAlphabet, 0, MaxTextLen) \cup NestedJsTexts
TxtTexts == SeqsOf(VueAlphabet, 0, 1)

TextsOf(path) ==
    IF path \in {RootPyPath, OutsidePyPath} THEN {<<"def f(): pass", "\n">>, <<"pass", "\n">>}
    ELSE IF path = PyPath THEN PyTexts
    ELSE IF path = JavaPath THEN JavaTexts
    ELSE IF path = VuePath THEN VueTexts
    ELSE IF path = JsPath THEN JsTexts
    ELSE TxtTexts

Init ==
    /\ pc = "start"
    /\ \E p \in Paths :
         \/ \E t \in TextsOf(p) : file = [path |-> p, status |-> "ok", text |-> t]
         \/ \E e \in ReadErrors : file = [path |-> p, status |-> e, text |-> <<>>]
    /\ result = NoResult
    /\ NoBrace
    /\ NoCodebase
    /\ NoServer

\* a caller calls parse_file(file.path)
ParseFile ==
    /\ pc = "start"
    /\ result' = parse_file(file)
    /\ pc' = "done"
    /\ UNCHANGED <<file, braceVars, codebaseVars, serverVars>>

Next == ParseFile

Spec == Init /\ [][Next]_vars

(***************************************************************************)
(* Specification SpecCodebase: parse_codebase (code_parser.py:532-545)     *)
(* over a directory of at most MaxFiles files.  scan_files returns the     *)
(* files with a supported extension in the order of the file system; the   *)
(* loop parses them one by one and collects the chunks.                    *)
(***************************************************************************)
\* two file names that hold the separator of the chunk id:
\* "u.js::A.py" and "u.js::A.py::u.js"
SepNamePyPath == <<"/", "code", "/", "proj", "/", "u", ".js", "::", "A", ".py">>
SepNameJsPath == <<"/", "code", "/", "proj", "/", "u", ".js", "::", "A", ".py", "::", "u", ".js">>

\* files in directories below the project directory: node_modules/Stem.js,
\* src/Stem.py, src/build/Stem.py, and the file build.js
IgnoredDirJsPath == <<"/", "code", "/", "proj", "/", "node_modules", "/", "Stem", ".js">>
SubdirPyPath == <<"/", "code", "/", "proj", "/", "src", "/", "Stem", ".py">>
NestedIgnoredPyPath == <<"/", "code", "/", "proj", "/", "src", "/", "build", "/", "Stem", ".py">>
BuildJsPath == <<"/", "code", "/", "proj", "/", "build", ".js">>

CodebasePaths ==
    {PyPath, JsPath, VuePath, TxtPath, SepNamePyPath, SepNameJsPath,
     IgnoredDirJsPath, SubdirPyPath, NestedIgnoredPyPath, BuildJsPath}

\* the directories scan_files is called on: the project directory and a
\* directory below it whose own name is an ignored one
BasePaths ==
    {<<"/", "code", "/", "proj">>, <<"/", "code", "/", "proj", "/", "src", "/", "build">>}

CodebaseTextsOf(path) ==
    IF PathSuffix(path) = <<".py">>
    THEN {<<"pass", "\n">>, <<"def f(): pass", "\n">>}
    ELSE IF PathSuffix(path) = <<".js">>
    THEN {<<"function A()", "{", "}">>, <<";">>}
    ELSE IF PathSuffix(path) = <<".vue">>
    THEN {<<"<script>", "x", "</script>">>, <<"x">>}
    ELSE {<<"x">>}

CodebaseFiles ==
    {[path |-> p, status |-> "ok", text |-> t] : p \in CodebasePaths, t \in UNION {CodebaseTextsOf(q) : q \in CodebasePaths}}

\* the files a directory of the model can hold: a readable file with a text
\* of its extension, or a file whose read fails
DirectoryEntries ==
    {f \in CodebaseFiles : f.text \in CodebaseTextsOf(f.path)}
    \cup {[path |-> p, status |-> e, text |-> <<>>] :
            p \in CodebasePaths, e \in {"FileNotFoundError", "OSError"}}

\* the sets of at most n files of S, no path twice
RECURSIVE FileSetsUpTo(_, _)
FileSetsUpTo(S, n) ==
    IF n = 0 THEN {{}}
    ELSE LET smaller == FileSetsUpTo(S, n - 1)
         IN  smaller \cup
             UNION {{d \cup {f} : f \in {g \in S : \A h \in d : h.path # g.path}} : d \in smaller}

\* the directories of the model: at most MaxFiles files
Directories == FileSetsUpTo(DirectoryEntries, MaxFiles)

\* code_parser.py:27-31
IGNORE_DIRS ==
    {"node_modules", ".git", "__pycache__", ".venv", "venv", "dist", "build",
     ".next", ".nuxt", "target", ".idea", ".gradle", "out", "bin", ".settings"}

\* filepath lies in the tree of base
BelowBase(base, filepath) ==
    /\ Len(filepath) > Len(base) + 1
    /\ SubSeq(filepath, 1, Len(base)) = base
    /\ filepath[Len(base) + 1] = "/"

\* a slip: dirs filtered in the first directory of the walk only
WalkPrunesTopLevel(base, filepath) ==
    /\ Len(filepath) >= Len(base) + 3
    /\ filepath[Len(base) + 2] \in IGNORE_DIRS
    /\ filepath[Len(base) + 3] = "/"

\* os.walk never reaches filepath: a directory between base and the file
\* was taken out of dirs (code_parser.py:97)
WalkPrunes(base, filepath) ==
    \E k \in (Len(base) + 2)..(Len(filepath) - 1) :
        /\ filepath[k] \in IGNORE_DIRS
        /\ filepath[k - 1] = "/"
        /\ filepath[k + 1] = "/"

\* the files scan_files(base) collects
ScannedFiles(base, d) ==
    {f \in d : /\ BelowBase(base, f.path)
               /\ ~WalkPrunes(base, f.path)
               /\ PathSuffix(f.path) \in SUPPORTED_EXTENSIONS}

\* the orders a set of files can be listed in
OrdersOf(S) ==
    {o \in [1..Cardinality(S) -> S] : \A i, j \in 1..Cardinality(S) : i # j => o[i] # o[j]}

InitCodebase ==
    /\ pc = "scan"
    /\ dir \in Directories
    /\ base_path \in BasePaths
    /\ files = <<>>
    /\ idx = 0
    /\ all_chunks = <<>>
    /\ file = NoFile
    /\ result = NoResult
    /\ NoBrace
    /\ NoServer

\* files = scan_files(base_path) (code_parser.py:95-102, 534)
ScanFiles ==
    /\ pc = "scan"
    /\ files' \in OrdersOf(ScannedFiles(base_path, dir))
    /\ idx' = 1
    /\ pc' = "loop"
    /\ UNCHANGED <<fileVars, braceVars, dir, base_path, all_chunks, serverVars>>

\* one pass of the loop: chunks = parse_file(filepath); all_chunks.extend(chunks).
\* An exception of parse_file leaves parse_codebase.
ParseNextFile ==
    /\ pc = "loop"
    /\ idx <= Len(files)
    /\ LET r == parse_file(files[idx])
       IN  IF r.raised # "none"
           THEN /\ pc' = "raised"
                /\ UNCHANGED <<idx, all_chunks>>
           ELSE /\ all_chunks' = all_chunks \o r.chunks
                /\ idx' = idx + 1
                /\ pc' = pc
    /\ UNCHANGED <<fileVars, braceVars, dir, base_path, files, serverVars>>

\* return all_chunks
ReturnChunks ==
    /\ pc = "loop"
    /\ idx > Len(files)
    /\ pc' = "returned"
    /\ UNCHANGED <<fileVars, braceVars, codebaseVars, serverVars>>

NextCodebase == ScanFiles \/ ParseNextFile \/ ReturnChunks

SpecCodebase == InitCodebase /\ [][NextCodebase]_vars

(***************************************************************************)
(* Specification SpecBrace: find_matching_brace applied to every text over *)
(* the brace alphabet and every offset of a '{' in it.                     *)
(***************************************************************************)
BraceAlphabet == {"{", "}", "\"", "'", "\\", "a"}

\* the text of the spec's brace-matching scenario: { a "}" b }
ExampleBraceText == <<"{", " ", "a", " ", "\"", "}", "\"", " ", "b", " ", "}">>

BraceTexts == SeqsOf(BraceAlphabet, 1, MaxBraceLen) \cup {ExampleBraceText}

InitBrace ==
    /\ btext \in BraceTexts
    /\ bstart \in {p \in 0..(Len(btext) - 1) : At(btext, p) = "{"}
    /\ bresult = -2
    /\ pc = "brace"
    /\ file = NoFile
    /\ result = NoResult
    /\ NoCodebase
    /\ NoServer

CallFindMatchingBrace ==
    /\ pc = "brace"
    /\ bresult' = find_matching_brace(btext, bstart)
    /\ pc' = "brace_done"
    /\ UNCHANGED <<fileVars, btext, bstart, codebaseVars, serverVars>>

NextBrace == CallFindMatchingBrace

SpecBrace == InitBrace /\ [][NextBrace]_vars

(***************************************************************************)
(* main.py: the indexing endpoints.                                        *)
(*                                                                         *)
(* index_codebase and cancel_indexing are coroutines of one event loop and *)
(* index_codebase holds no await: from its first statement to its return   *)
(* or raise the loop runs no other handler.  The steps of a run are the    *)
(* actions below; a request is taken only when pc = "idle".                *)
(***************************************************************************)
\* requests the clients send in one behaviour
MaxRequests == 2

\* embed_batch_size (main.py:499, 32 in the source) and batch_size
\* (main.py:517, 100 in the source), scaled to the chunk lists of the model
embed_batch_size == 2
batch_size == 2

\* the attributes to_dict lists before **self.metadata
CoreAttributes ==
    {"content", "filepath", "language", "project", "chunk_type", "name", "start_line", "end_line"}

\* a slip: the metadata entries left out of the mapping
to_dict_CoreOnly(chunk) == [k \in CoreAttributes |-> chunk[k]]

\* CodeChunk.to_dict (code_parser.py:55-66): a later key of the literal wins
to_dict(chunk) ==
    [k \in CoreAttributes \cup DOMAIN chunk.metadata |->
        IF k \in DOMAIN chunk.metadata THEN chunk.metadata[k] ELSE chunk[k]]

\* meta.pop("content", None)
PopContent(meta) == [k \in (DOMAIN meta) \ {"content"} |-> meta[k]]

\* Embedder.embed_batch: one vector per text, in the order of the texts
embed_batch(texts) == [i \in 1..Len(texts) |-> <<"embedding", texts[i]>>]

\* Retriever.count_by_project, has_project, delete_by_project
count_by_project(st, project) == Cardinality({e \in st : e.metadata.project = project})
\* a slip: no project is ever found in the store
has_project_Never(st, project) == FALSE

has_project(st, project) == count_by_project(st, project) > 0
\* a slip: the deletion left out
delete_by_project_Nothing(st, project) == st

delete_by_project(st, project) == {e \in st : e.metadata.project # project}

\* collection.add refuses a call whose ids are not distinct (DuplicateIDError)
AddRaises(ids) == \E i, j \in 1..Len(ids) : i # j /\ ids[i] = ids[j]

\* Retriever.add: collection.add stores the records whose id the collection
\* does not hold yet and ignores the others
retriever_add(st, documents, embs, ids, metadatas) ==
    st \cup {[id |-> ids[i], document |-> documents[i], embedding |-> embs[i],
              metadata |-> metadatas[i]] :
                i \in {j \in 1..Len(ids) : \A e \in st : e.id # ids[j]}}

\* the pairs <<current, total>>, total up to 300, for which the double
\* current / total * 100 lies just below the integer it rounds: 29 / 50 is
\* the double 0.57999999999999996, and times 100 the double
\* 57.99999999999999
FloatShortPairs ==
    {<<29, 50>>, <<29, 100>>, <<57, 100>>, <<58, 100>>, <<87, 150>>, <<58, 200>>,
     <<114, 200>>, <<116, 200>>, <<145, 250>>, <<87, 300>>, <<171, 300>>, <<174, 300>>}

\* int((current / total * 100) if total > 0 else 0) (main.py:144): the
\* division and the product are those of doubles, int cuts the fraction
PercentOf(current, total) ==
    IF total > 0
    THEN (current * 100) \div total - (IF <<current, total>> \in FloatShortPairs THEN 1 ELSE 0)
    ELSE 0

\* update_progress (main.py:135-146)
update_progress(stage, current, total, project) ==
    [is_indexing |-> TRUE, project |-> project, current |-> current, total |-> total,
     percent |-> PercentOf(current, total), stage |-> stage]

\* the dict clear_progress sets (main.py:149-161), also the initial one
ClearedProgress ==
    [is_indexing |-> FALSE, project |-> <<>>, current |-> 0, total |-> 0,
     percent |-> 0, stage |-> "", cancelled |-> FALSE]

\* is_cancelled: _index_progress.get("cancelled", False)
is_cancelled(p) == IF "cancelled" \in DOMAIN p THEN p.cancelled ELSE FALSE

\* _index_progress["cancelled"] = True
SetCancelled(p) ==
    [k \in DOMAIN p \cup {"cancelled"} |-> IF k = "cancelled" THEN TRUE ELSE p[k]]

\* the tokens of a project name that re.sub(r'[^a-zA-Z0-9\-_가-힣]', '', name)
\* keeps; "x50" stands for fifty letters x
KeptNameTokens == {"proj", "B", "x50", "-", "_"}

\* the number of characters a token of a name stands for
NameTokenChars(tok) == IF tok = "x50" THEN 50 ELSE IF tok = "proj" THEN 4 ELSE 1

\* name.strip()
RECURSIVE StripName(_)
StripName(name) ==
    IF name = <<>> THEN <<>>
    ELSE IF Head(name) = " " THEN StripName(Tail(name))
    ELSE IF name[Len(name)] = " " THEN StripName(SubSeq(name, 1, Len(name) - 1))
    ELSE name

\* sanitized[:50], for names that the fiftieth character does not split
RECURSIVE FirstChars(_, _)
FirstChars(name, n) ==
    IF name = <<>> \/ NameTokenChars(Head(name)) > n THEN <<>>
    ELSE <<Head(name)>> \o FirstChars(Tail(name), n - NameTokenChars(Head(name)))

\* _sanitize_project_name (main.py:395-401): raised stands for its HTTP 400
_sanitize_project_name(name) ==
    LET sanitized == SelectSeq(name, LAMBDA tok : tok \in KeptNameTokens)
    IN  [raised |-> sanitized = <<>>, name |-> FirstChars(sanitized, 50)]

\* settings.allowed_browse_paths (config.py:28)
AllowedBrowsePaths == {CODE_BASE_PATH}

\* Settings.is_path_allowed (config.py:43-53)
is_path_allowed(path) ==
    \E allowed \in AllowedBrowsePaths : path = allowed \/ BelowBase(allowed, path)

ProjDir == <<"/", "code", "/", "proj">>

\* code_path.exists() and code_path.is_dir() in the file system d
PathIsDir(path, d) == path \in {CODE_BASE_PATH, ProjDir} \/ \E f \in d : BelowBase(path, f.path)
PathExists(path, d) == PathIsDir(path, d) \/ \E f \in d : f.path = path

\* the answers of the endpoints
NoResponse == <<>>
HttpError(code) == [http |-> code, status |-> "error", project |-> <<>>, indexed_files |-> 0, chunks |-> 0]
IndexResponse(status, project, indexed_files, chunks) == [http |-> 200, status |-> status, project |-> project, indexed_files |-> indexed_files, chunks |-> chunks]

\* the code paths and project names of the requests
IndexCodePaths == {ProjDir, <<"/", "etc">>, <<"/", "code", "/", "missing">>, PyPath}
RawProjectNames == {<<>>, <<"B">>, <<" ", "B", "!", " ">>, <<"!">>, <<"x50", "B">>}

IndexRequests ==
    {[endpoint |-> "index", code_path |-> ProjDir, project_name |-> n, force |-> f] :
        n \in RawProjectNames, f \in BOOLEAN}
    \cup {[endpoint |-> "index", code_path |-> p, project_name |-> <<>>, force |-> FALSE] :
            p \in IndexCodePaths}

\* the contents of the project directory
OkFile(path, text) == [path |-> path, status |-> "ok", text |-> text]
IndexDirectories ==
    {{},
     {OkFile(TxtPath, <<"x">>)},
     {OkFile(PyPath, <<"\n">>)},
     {OkFile(PyPath, <<"def f(): pass", "\n">>), OkFile(JsPath, <<"function A()", "{", "}">>)},
     {OkFile(PyPath, <<"class A:", "\n", "    ", "def f(): pass", "\n">>)},
     {OkFile(PyPath, <<"def f(): pass", "\n", "def f(): pass", "\n">>),
      OkFile(VuePath, <<"<script>", "x", "</script>">>),
      OkFile(IgnoredDirJsPath, <<"function A()", "{", "}">>)},
     {OkFile(PyPath, <<"class A:", "\n", "    ", "def f(): pass", "\n">>),
      [path |-> JsPath, status |-> "OSError", text |-> <<>>]},
     {OkFile(SepNamePyPath, <<"pass", "\n">>),
      OkFile(SepNameJsPath, <<"function A()", "{", "}">>)}}

InitIndex ==
    /\ pc = "idle"
    /\ dir \in IndexDirectories
    /\ files = <<>> /\ idx = 0 /\ base_path = <<>> /\ all_chunks = <<>>
    /\ request = <<>>
    /\ project_name = <<>>
    /\ progress = ClearedProgress
    /\ store = {}
    /\ embeddings = <<>>
    /\ response = NoResponse
    /\ added = <<>>
    /\ budget = MaxRequests
    /\ file = NoFile
    /\ result = NoResult
    /\ NoBrace
    /\ NoQuery

\* a cancellation check that finds the flag set (main.py:470-476, 502-508,
\* 520-526)
Cancelled499 ==
    /\ store' = delete_by_project(store, project_name)
    /\ progress' = ClearedProgress
    /\ response' = HttpError(499)
    /\ pc' = "idle"
    /\ UNCHANGED <<files, idx, all_chunks, embeddings, added>>

\* index_codebase from the request to the end of the scan (main.py:411-463)
IndexCodebase ==
    /\ pc = "idle"
    /\ budget > 0
    /\ budget' = budget - 1
    /\ \E req \in IndexRequests :
         /\ request' = req
         /\ LET raw == IF req.project_name # <<>> THEN StripName(req.project_name)
                       ELSE PathName(req.code_path)
                san == _sanitize_project_name(raw)
                scanned == ScannedFiles(req.code_path, dir)
            IN  IF ~is_path_allowed(req.code_path)
                THEN /\ response' = HttpError(403)
                     /\ UNCHANGED <<pc, project_name, progress, store, files, idx, all_chunks, embeddings, added>>
                ELSE IF ~PathExists(req.code_path, dir) \/ ~PathIsDir(req.code_path, dir) \/ san.raised
                THEN /\ response' = HttpError(400)
                     /\ UNCHANGED <<pc, project_name, progress, store, files, idx, all_chunks, embeddings, added>>
                ELSE IF has_project(store, san.name) /\ ~req.force
                THEN /\ response' = IndexResponse("skipped", san.name, 0, count_by_project(store, san.name))
                     /\ UNCHANGED <<pc, project_name, progress, store, files, idx, all_chunks, embeddings, added>>
                ELSE /\ project_name' = san.name
                     /\ store' = IF req.force THEN delete_by_project(store, san.name) ELSE store
                     /\ all_chunks' = <<>>
                     /\ embeddings' = <<>>
                     /\ added' = <<>>
                     /\ IF scanned = {}
                        THEN /\ progress' = ClearedProgress
                             /\ response' = HttpError(400)
                             /\ files' = <<>>
                             /\ idx' = 0
                             /\ pc' = "idle"
                        ELSE /\ progress' = update_progress("scanning", 0, 1, san.name)
                             /\ response' = NoResponse
                             /\ files' \in OrdersOf(scanned)
                             /\ idx' = 1
                             /\ pc' = "chunking"
    /\ UNCHANGED <<fileVars, braceVars, dir, base_path, queryVars>>

\* a slip: the chunks kept as parse_file made them
KeepProject(chunks, project) == chunks

\* the project of every chunk set to project_name (main.py:481-482)
OverrideProject(chunks, project) ==
    [i \in 1..Len(chunks) |-> [chunks[i] EXCEPT !.project = project]]

\* one pass of the chunking loop (main.py:466-483); an exception of
\* parse_file leaves the handler, which answers 500
IndexParseFile ==
    /\ pc = "chunking"
    /\ idx <= Len(files)
    /\ IF is_cancelled(progress) THEN Cancelled499
       ELSE LET r == parse_file(files[idx])
            IN  /\ progress' = update_progress("scanning", idx, Len(files), project_name)
                /\ IF r.raised # "none"
                   THEN /\ response' = HttpError(500)
                        /\ pc' = "idle"
                        /\ UNCHANGED <<idx, all_chunks>>
                   ELSE /\ all_chunks' = all_chunks \o OverrideProject(r.chunks, project_name)
                        /\ idx' = idx + 1
                        /\ UNCHANGED <<response, pc>>
                /\ UNCHANGED <<store, files, embeddings, added>>
    /\ UNCHANGED <<fileVars, braceVars, dir, base_path, request, project_name, budget, queryVars>>

\* after the chunking loop (main.py:485-493)
IndexChunked ==
    /\ pc = "chunking"
    /\ idx > Len(files)
    /\ IF all_chunks = <<>>
       THEN /\ progress' = ClearedProgress
            /\ response' = HttpError(400)
            /\ pc' = "idle"
            /\ UNCHANGED idx
       ELSE /\ progress' = update_progress("embedding", 0, Len(all_chunks), project_name)
            /\ idx' = 0
            /\ pc' = "embedding"
            /\ UNCHANGED response
    /\ UNCHANGED <<fileVars, braceVars, dir, base_path, files, all_chunks, request, project_name, store, embeddings, added, budget, queryVars>>

\* one pass of the embedding loop (main.py:500-513)
IndexEmbedBatch ==
    /\ pc = "embedding"
    /\ idx < Len(all_chunks)
    /\ IF is_cancelled(progress) THEN Cancelled499
       ELSE LET contents == [i \in 1..Len(all_chunks) |-> all_chunks[i].content]
                batch == SubSeq(contents, idx + 1, Min({idx + embed_batch_size, Len(contents)}))
            IN  /\ embeddings' = embeddings \o embed_batch(batch)
                /\ progress' = update_progress("embedding", Min({idx + embed_batch_size, Len(contents)}), Len(contents), project_name)
                /\ idx' = idx + embed_batch_size
                /\ UNCHANGED <<store, files, all_chunks, added, response, pc>>
    /\ UNCHANGED <<fileVars, braceVars, dir, base_path, request, project_name, budget, queryVars>>

\* after the embedding loop (main.py:516-517)
IndexEmbedded ==
    /\ pc = "embedding"
    /\ idx >= Len(all_chunks)
    /\ progress' = update_progress("storing", 0, Len(all_chunks), project_name)
    /\ idx' = 0
    /\ pc' = "storing"
    /\ UNCHANGED <<fileVars, braceVars, dir, base_path, files, all_chunks, request, project_name, store, embeddings, response, added, budget, queryVars>>

\* the arguments of the retriever.add call of the batch at offset i
\* (main.py:528-537)
AddCall(chunks, embs, i) ==
    LET last == Min({i + batch_size, Len(chunks)})
        batch_chunks == SubSeq(chunks, i + 1, last)
    IN  [i |-> i,
         ids |-> [k \in 1..Len(batch_chunks) |-> ChunkId(batch_chunks[k])],
         documents |-> [k \in 1..Len(batch_chunks) |-> batch_chunks[k].content],
         embeddings |-> SubSeq(embs, i + 1, Min({i + batch_size, Len(embs)})),
         metadatas |-> [k \in 1..Len(batch_chunks) |-> PopContent(to_dict(batch_chunks[k]))]]

\* one pass of the storing loop (main.py:518-545); an exception of
\* collection.add leaves the handler, which answers 500
IndexStoreBatch ==
    /\ pc = "storing"
    /\ idx < Len(all_chunks)
    /\ IF is_cancelled(progress) THEN Cancelled499
       ELSE LET call == AddCall(all_chunks, embeddings, idx)
            IN  /\ added' = Append(added, call)
                /\ IF AddRaises(call.ids)
                   THEN /\ response' = HttpError(500)
                        /\ pc' = "idle"
                        /\ UNCHANGED <<store, progress, idx>>
                   ELSE /\ store' = retriever_add(store, call.documents, call.embeddings, call.ids, call.metadatas)
                        /\ progress' = update_progress("storing", Min({idx + batch_size, Len(all_chunks)}), Len(all_chunks), project_name)
                        /\ idx' = idx + batch_size
                        /\ UNCHANGED <<response, pc>>
                /\ UNCHANGED <<files, all_chunks, embeddings>>
    /\ UNCHANGED <<fileVars, braceVars, dir, base_path, request, project_name, budget, queryVars>>

\* after the storing loop (main.py:547-555)
IndexFinish ==
    /\ pc = "storing"
    /\ idx >= Len(all_chunks)
    /\ progress' = ClearedProgress
    /\ response' = IndexResponse("success", project_name, Len(files), Len(all_chunks))
    /\ pc' = "idle"
    /\ UNCHANGED <<fileVars, braceVars, dir, base_path, files, idx, all_chunks, request, project_name, store, embeddings, added, budget, queryVars>>

\* cancel_indexing (main.py:379-392)
CancelIndexing ==
    /\ pc = "idle"
    /\ budget > 0
    /\ budget' = budget - 1
    /\ request' = [endpoint |-> "cancel"]
    /\ IF ~progress.is_indexing
       THEN /\ response' = IndexResponse("not_indexing", <<>>, 0, 0)
            /\ UNCHANGED progress
       ELSE /\ progress' = SetCancelled(progress)
            /\ response' = IndexResponse("cancelling", progress.project, 0, 0)
    /\ UNCHANGED <<fileVars, braceVars, codebaseVars, project_name, store, embeddings, added, pc, queryVars>>

NextIndex ==
    \/ IndexCodebase
    \/ IndexParseFile
    \/ IndexChunked
    \/ IndexEmbedBatch
    \/ IndexEmbedded
    \/ IndexStoreBatch
    \/ IndexFinish
    \/ CancelIndexing

SpecIndex == InitIndex /\ [][NextIndex]_vars

(***************************************************************************)
(* index_codebase with a project directory whose files are replaced        *)
(* between the requests, so that a project that was indexed can be asked   *)
(* for again when its directory gives nothing to index.                    *)
(***************************************************************************)
InitForce ==
    /\ pc = "idle"
    /\ dir \in IndexDirectories
    /\ files = <<>> /\ idx = 0 /\ base_path = <<>> /\ all_chunks = <<>>
    /\ request = <<>>
    /\ project_name = <<>>
    /\ progress = ClearedProgress
    /\ store = {}
    /\ embeddings = <<>>
    /\ response = NoResponse
    /\ added = <<>>
    /\ budget = MaxRequests + 1
    /\ file = NoFile
    /\ result = NoResult
    /\ NoBrace
    /\ NoQuery

\* the files below the project directory are replaced while no request is
\* being served
ReplaceDirectory ==
    /\ pc = "idle"
    /\ budget > 0
    /\ budget <= MaxRequests
    /\ dir' \in IndexDirectories \ {dir}
    /\ UNCHANGED <<pc, fileVars, braceVars, files, idx, base_path, all_chunks, serverVars>>

NextForce ==
    \/ IndexCodebase
    \/ IndexParseFile
    \/ IndexChunked
    \/ IndexEmbedBatch
    \/ IndexEmbedded
    \/ IndexStoreBatch
    \/ IndexFinish
    \/ CancelIndexing
    \/ ReplaceDirectory

SpecForce == InitForce /\ [][NextForce]_vars

(***************************************************************************)
(* index_codebase on a directory of many files, for the progress reports   *)
(* of a long run: the files are numbered, each holds one statement, and    *)
(* scan_files lists them by number.                                        *)
(***************************************************************************)
NumberedFile(i) == OkFile(<<"/", "code", "/", "proj", "/", ToString(i), ".py">>, <<"pass", "\n">>)

InitProgress ==
    /\ pc = "idle"
    /\ \E n \in 1..MaxProgressFiles : dir = {NumberedFile(i) : i \in 1..n}
    /\ files = <<>> /\ idx = 0 /\ base_path = <<>> /\ all_chunks = <<>>
    /\ request = <<>>
    /\ project_name = <<>>
    /\ progress = ClearedProgress
    /\ store = {}
    /\ embeddings = <<>>
    /\ response = NoResponse
    /\ added = <<>>
    /\ budget = MaxRequests
    /\ file = NoFile
    /\ result = NoResult
    /\ NoBrace
    /\ NoQuery

\* index_codebase from the request to the end of the scan (main.py:411-463)
\* for a forced request on the project directory
IndexLargeDirectory ==
    /\ pc = "idle"
    /\ budget > 0
    /\ budget' = budget - 1
    /\ request' = [endpoint |-> "index", code_path |-> ProjDir, project_name |-> <<>>, force |-> TRUE]
    /\ project_name' = _sanitize_project_name(PathName(ProjDir)).name
    /\ store' = delete_by_project(store, project_name')
    /\ progress' = update_progress("scanning", 0, 1, project_name')
    /\ files' = [i \in 1..Cardinality(dir) |-> NumberedFile(i)]
    /\ all_chunks' = <<>>
    /\ embeddings' = <<>>
    /\ added' = <<>>
    /\ response' = NoResponse
    /\ idx' = 1
    /\ pc' = "chunking"
    /\ UNCHANGED <<fileVars, braceVars, dir, base_path, queryVars>>

NextProgress ==
    \/ IndexLargeDirectory
    \/ IndexParseFile
    \/ IndexChunked
    \/ IndexEmbedBatch
    \/ IndexEmbedded
    \/ IndexStoreBatch
    \/ IndexFinish

SpecProgress == InitProgress /\ [][NextProgress]_vars

(***************************************************************************)
(* The query endpoints of backend/main.py with RAGChain (rag_chain.py) and *)
(* the Ollama client (llm.py).  An answer is a sequence of tokens; the     *)
(* token "LLM_ERROR: " stands for the prefix that RAGChain writes before   *)
(* the message of an OllamaError.                                          *)
(***************************************************************************)
MaxTokens == 2

\* settings.ollama_model, the model of the LLM instance
OllamaModel == "ollama_model"

Questions == {<<"q1">>, <<"q2">>}

RECURSIVE TokenSeqsUpTo(_)
TokenSeqsUpTo(n) ==
    IF n = 0 THEN {<<>>}
    ELSE LET shorter == TokenSeqsUpTo(n - 1)
         IN  shorter \cup {Append(t, tok) : t \in shorter, tok \in {"t1", "t2"}}

\* what the Ollama server does with a request: whether GET /api/tags
\* answers 200, the status of POST /api/generate, the "response" texts of
\* the lines it sends, and how httpx ends the exchange after them
LlmBehaviours ==
    [connected : BOOLEAN, status : {200, 500}, tokens : TokenSeqsUpTo(MaxTokens),
     failure : {"none", "TimeoutException", "RequestError"}]

\* LLM.generate (llm.py:104-140): the content of the answer, or the
\* OllamaError it raises
generate(b) ==
    IF ~b.connected THEN [raised |-> "OllamaError", error |-> "connect", content |-> <<>>, model |-> OllamaModel]
    ELSE IF b.failure # "none" THEN [raised |-> "OllamaError", error |-> b.failure, content |-> <<>>, model |-> OllamaModel]
    ELSE IF b.status # 200 THEN [raised |-> "OllamaError", error |-> "api", content |-> <<>>, model |-> OllamaModel]
    ELSE [raised |-> "none", error |-> "none", content |-> b.tokens, model |-> OllamaModel]

\* LLM.generate_stream (llm.py:142-181): the texts it yields, and the
\* OllamaError it raises after them
generate_stream(b) ==
    IF ~b.connected THEN [yielded |-> <<>>, raised |-> "OllamaError", error |-> "connect"]
    ELSE IF b.failure # "none" /\ b.tokens = <<>> THEN [yielded |-> <<>>, raised |-> "OllamaError", error |-> b.failure]
    ELSE IF b.status # 200 THEN [yielded |-> <<>>, raised |-> "OllamaError", error |-> "api"]
    ELSE [yielded |-> [i \in 1..Len(b.tokens) |-> <<b.tokens[i]>>],
          raised |-> IF b.failure # "none" THEN "OllamaError" ELSE "none",
          error |-> b.failure]

\* RAGChain.query (rag_chain.py:99-145): the except clause turns an
\* OllamaError into the answer text
rag_query(b) ==
    LET r == generate(b)
    IN  IF r.raised = "OllamaError"
        THEN [raised |-> "none", answer |-> <<"LLM_ERROR: ", r.error>>, model |-> OllamaModel]
        ELSE [raised |-> r.raised, answer |-> r.content, model |-> r.model]

\* RAGChain.query_stream (rag_chain.py:147-172): the chunks of the LLM, and
\* after an OllamaError one more chunk with the error text
rag_query_stream(b) ==
    LET g == generate_stream(b)
    IN  IF g.raised = "OllamaError"
        THEN [yielded |-> Append(g.yielded, <<"\n", "\n", "LLM_ERROR: ", g.error>>), raised |-> "none", error |-> "none"]
        ELSE g

\* "".join(full_answer)
RECURSIVE Join(_)
Join(chunks) == IF chunks = <<>> THEN <<>> ELSE Head(chunks) \o Join(Tail(chunks))

\* log_query (main.py:120-132): one entry more in LOG_FILE
log_query(logs, question, answer, model) ==
    Append(logs, [question |-> question, answer |-> answer, model |-> model])

QueryResponse(answer, model) == [http |-> 200, status |-> "answer", answer |-> answer, model |-> model]
StreamResponse == [http |-> 200, status |-> "stream"]

InitQuery ==
    /\ pc = "idle"
    /\ budget = MaxRequests
    /\ NoIndex
    /\ NoQuery
    /\ NoCodebase
    /\ NoBrace
    /\ file = NoFile
    /\ result = NoResult

\* query (main.py:569-606)
Query ==
    /\ pc = "idle"
    /\ budget > 0
    /\ budget' = budget - 1
    /\ \E question \in Questions, b \in LlmBehaviours :
         /\ request' = [endpoint |-> "query", question |-> question]
         /\ llm' = b
         /\ LET res == rag_query(b)
            IN  IF res.raised = "OllamaError"
                THEN /\ response' = HttpError(503)
                     /\ UNCHANGED query_logs
                ELSE /\ query_logs' = log_query(query_logs, question, res.answer, res.model)
                     /\ response' = QueryResponse(res.answer, res.model)
    /\ UNCHANGED <<pc, events, modelVars, fileVars, braceVars, codebaseVars, project_name, progress, store, embeddings, added>>

\* query_stream (main.py:614-641): the generator is made and handed to
\* EventSourceResponse
QueryStream ==
    /\ pc = "idle"
    /\ budget > 0
    /\ budget' = budget - 1
    /\ \E question \in Questions, b \in LlmBehaviours :
         /\ request' = [endpoint |-> "stream", question |-> question]
         /\ llm' = b
    /\ events' = <<>>
    /\ response' = StreamResponse
    /\ pc' = "streaming"
    /\ UNCHANGED <<query_logs, modelVars, fileVars, braceVars, codebaseVars, project_name, progress, store, embeddings, added>>

\* one turn of the loop of generate (main.py:621-626)
StreamMessage ==
    /\ pc = "streaming"
    /\ LET g == rag_query_stream(llm)
       IN  /\ Len(events) < Len(g.yielded)
           /\ events' = Append(events, [event |-> "message", data |-> g.yielded[Len(events) + 1]])
    /\ UNCHANGED <<pc, llm, query_logs, modelVars, budget, indexVars, fileVars, braceVars, codebaseVars>>

\* the end of the loop of generate (main.py:627-630, 635-639): 'done', or
\* 'error' when the iteration raised OllamaError
StreamEnd ==
    /\ pc = "streaming"
    /\ LET g == rag_query_stream(llm)
       IN  /\ Len(events) = Len(g.yielded)
           /\ IF g.raised = "OllamaError"
              THEN /\ events' = Append(events, [event |-> "error", data |-> <<g.error>>])
                   /\ pc' = "idle"
              ELSE /\ events' = Append(events, [event |-> "done", data |-> <<"[DONE]">>])
                   /\ pc' = "logging"
    /\ UNCHANGED <<llm, query_logs, modelVars, budget, indexVars, fileVars, braceVars, codebaseVars>>

\* the log entry after the 'done' event (main.py:632-633)
StreamLog ==
    /\ pc = "logging"
    /\ LET full_answer == [i \in 1..(Len(events) - 1) |-> events[i].data]
       IN  query_logs' = log_query(query_logs, request.question, Join(full_answer), OllamaModel)
    /\ pc' = "idle"
    /\ UNCHANGED <<llm, events, modelVars, budget, indexVars, fileVars, braceVars, codebaseVars>>

NextQuery ==
    \/ Query
    \/ QueryStream
    \/ StreamMessage
    \/ StreamEnd
    \/ StreamLog

SpecQuery == InitQuery /\ [][NextQuery]_vars

(***************************************************************************)
(* The model and the RAG chain of backend/main.py: switch_model, and the   *)
(* top_k that query and query_stream set on the shared chain.  A model     *)
(* name is a sequence of tokens, ":" between name and tag.  Every handler  *)
(* is a coroutine without an await and runs as one step; the body of the   *)
(* generator that query_stream returns runs when the response is being     *)
(* sent, after the handler has returned, so other handlers can be served   *)
(* in between.                                                             *)
(***************************************************************************)
\* settings.ollama_model (config.py:18), "qwen2.5:3b"
settings_ollama_model == <<"qwen", ":", "3b">>

\* the default top_k of RAGChain (rag_chain.py:43)
DefaultTopK == 5

\* the values of QueryRequest.top_k (schemas.py:58: 1 to 20)
TopKs == {1, 5, 20}

\* the model names of the switch requests
RequestedModels ==
    {<<"qwen", ":", "3b">>, <<"qwen", ":", "7b">>, <<"qwen">>, <<"llama", ":", "8b">>, <<"3b">>, <<>>}

\* what GET /api/tags of the Ollama server gives: whether the request gets
\* through, the status code and the names of the installed models
TagsAnswers ==
    [reachable : BOOLEAN, status : {200, 500},
     models : SUBSET {<<"qwen", ":", "3b">>, <<"llama", ":", "8b">>}]

\* LLM.__init__ (llm.py:60-72): model or settings.ollama_model
LLM_init(model) == IF model = <<>> THEN settings_ollama_model ELSE model

\* the model of get_llm() (main.py:102-106)
get_llm(m) == IF m = "none" THEN LLM_init(<<>>) ELSE m

\* the chains after get_rag_chain() (main.py:109-117); the chain it returns
\* is the last
get_rag_chain(chs, m) ==
    IF chs = <<>> THEN <<[model |-> get_llm(m), top_k |-> DefaultTopK]>> ELSE chs

\* a in b of two strings
IsSubstring(a, b) == \E i \in 0..(Len(b) - Len(a)) : SubSeq(b, i + 1, i + Len(a)) = a

\* b.startswith(a)
StartsWith(b, a) == Len(a) <= Len(b) /\ SubSeq(b, 1, Len(a)) = a

\* model.split(":")[0]
BeforeColon(model) ==
    IF \E i \in 1..Len(model) : model[i] = ":"
    THEN SubSeq(model, 1, (CHOOSE i \in 1..Len(model) : model[i] = ":" /\ \A j \in 1..(i - 1) : model[j] # ":") - 1)
    ELSE model

\* model_exists of switch_model (main.py:326-329)
model_exists(model, model_names) ==
    \E m \in model_names :
        \/ model = m
        \/ IsSubstring(model, m)
        \/ StartsWith(m, BeforeColon(model))

SwitchModelResponse(previous, current) == [http |-> 200, status |-> "success", previous |-> previous, current |-> current]
StatusResponse(model) == [http |-> 200, status |-> "status", ollama_model |-> model]
NoStream == <<>>

InitModels ==
    /\ pc = "idle"
    /\ budget = MaxRequests
    /\ NoIndex
    /\ NoQuery
    /\ NoCodebase
    /\ NoBrace
    /\ file = NoFile
    /\ result = NoResult

\* switch_model (main.py:311-354)
SwitchModel ==
    /\ pc = "idle"
    /\ budget > 0
    /\ budget' = budget - 1
    /\ \E model \in RequestedModels, tags \in TagsAnswers :
         /\ request' = [endpoint |-> "switch", model |-> model, tags |-> tags]
         /\ LET previous_model == get_llm(llm_model)
            IN  IF ~tags.reachable
                THEN /\ response' = HttpError(503)
                     /\ llm_model' = previous_model
                     /\ UNCHANGED chains
                ELSE IF tags.status = 200 /\ ~model_exists(model, tags.models)
                THEN /\ response' = HttpError(404)
                     /\ llm_model' = previous_model
                     /\ UNCHANGED chains
                ELSE /\ llm_model' = LLM_init(model)
                     /\ chains' = Append(chains, [model |-> LLM_init(model), top_k |-> DefaultTopK])
                     /\ response' = SwitchModelResponse(previous_model, model)
    /\ UNCHANGED <<pc, inflight, retrieval, llm, events, query_logs, fileVars, braceVars, codebaseVars, project_name, progress, store, embeddings, added>>

\* query (main.py:569-606) with RAGChain.query (rag_chain.py:99-108): the
\* top_k of the request is set on the chain and the retriever is asked for
\* self.top_k results
QueryTopK ==
    /\ pc = "idle"
    /\ budget > 0
    /\ budget' = budget - 1
    /\ \E top_k \in TopKs :
         LET chs == get_rag_chain(chains, llm_model)
             c == Len(chs)
         IN  /\ request' = [endpoint |-> "query", top_k |-> top_k]
             /\ chains' = [chs EXCEPT ![c].top_k = top_k]
             /\ llm_model' = IF chains = <<>> THEN get_llm(llm_model) ELSE llm_model
             /\ retrieval' = [endpoint |-> "query", top_k |-> top_k, n_results |-> chains'[c].top_k]
             /\ response' = QueryResponse(<<"t1">>, chains'[c].model)
    /\ UNCHANGED <<pc, inflight, llm, events, query_logs, fileVars, braceVars, codebaseVars, project_name, progress, store, embeddings, added>>

\* query_stream (main.py:614-641): the top_k of the request is set on the
\* chain, and the generator, which holds the chain, is handed to
\* EventSourceResponse
QueryStreamTopK ==
    /\ pc = "idle"
    /\ budget > 0
    /\ inflight = NoStream
    /\ budget' = budget - 1
    /\ \E top_k \in TopKs :
         LET chs == get_rag_chain(chains, llm_model)
             c == Len(chs)
         IN  /\ request' = [endpoint |-> "stream", top_k |-> top_k]
             /\ chains' = [chs EXCEPT ![c].top_k = top_k]
             /\ llm_model' = IF chains = <<>> THEN get_llm(llm_model) ELSE llm_model
             /\ inflight' = [chain |-> c, top_k |-> top_k]
    /\ response' = StreamResponse
    /\ UNCHANGED <<pc, retrieval, llm, events, query_logs, fileVars, braceVars, codebaseVars, project_name, progress, store, embeddings, added>>

\* the start of the body of generate (main.py:618-621) with
\* RAGChain.query_stream up to its retriever call (rag_chain.py:147-156)
GenerateRetrieves ==
    /\ pc = "idle"
    /\ inflight # NoStream
    /\ retrieval' = [endpoint |-> "stream", top_k |-> inflight.top_k, n_results |-> chains[inflight.chain].top_k]
    /\ inflight' = NoStream
    /\ UNCHANGED <<pc, llm_model, chains, budget, llm, events, query_logs, indexVars, fileVars, braceVars, codebaseVars>>

\* status (main.py:655-680)
Status ==
    /\ pc = "idle"
    /\ budget > 0
    /\ budget' = budget - 1
    /\ request' = [endpoint |-> "status"]
    /\ llm_model' = get_llm(llm_model)
    /\ response' = StatusResponse(llm_model')
    /\ UNCHANGED <<pc, chains, inflight, retrieval, llm, events, query_logs, fileVars, braceVars, codebaseVars, project_name, progress, store, embeddings, added>>

NextModels ==
    \/ SwitchModel
    \/ QueryTopK
    \/ QueryStreamTopK
    \/ GenerateRetrieves
    \/ Status

SpecModels == InitModels /\ [][NextModels]_vars

(***************************************************************************)
(* The claims.  What they need is stated here on the text itself, not by   *)
(* the operators of the extractors.                                        *)
(***************************************************************************)
Returned == pc = "done" /\ result.raised = "none"

Language == EXTENSION_TO_LANGUAGE(PathSuffix(file.path))

\* the number of lines of a text: one per line boundary, and one more for a
\* last line that no boundary ends
TotalLines(text) ==
    Cardinality({i \in 1..Len(text) : text[i] \in LineBreaks})
    + (IF text # <<>> /\ text[Len(text)] \notin LineBreaks THEN 1 ELSE 0)

IsFallback(c) == c.chunk_type \in {"file", "component"}

\* offset q holds a declaration token of heads that only white space
\* separates from the start of its line
DeclaredAt(text, heads, q) ==
    /\ At(text, q) \in heads
    /\ \E p \in 0..q : AtLineStart(text, p) /\ \A i \in p..(q - 1) : At(text, i) \in Whitespace

\* the offset the declaration at q starts at: the first line start that only
\* white space separates from it
DeclStart(text, q) ==
    Min({p \in 0..q : AtLineStart(text, p) /\ \A i \in p..(q - 1) : At(text, i) \in Whitespace})

\* the offset of the '{' that opens the body of the Java declaration at q,
\* -1 when there is none: the first '{' after it
JavaOpenBrace(text, q) ==
    LET bs == {b \in (q + 1)..(Len(text) - 1) : At(text, b) = "{"}
    IN  IF bs = {} THEN -1 ELSE Min(bs)

\* the same for a JavaScript declaration: the '{' that follows it, after
\* white space at most
JsOpenBrace(text, q) ==
    LET bs == {b \in (q + 1)..(Len(text) - 1) :
                 At(text, b) = "{" /\ \A i \in (q + 1)..(b - 1) : At(text, i) \in Whitespace}
    IN  IF bs = {} THEN -1 ELSE Min(bs)

JsHeaders == JS_CLASS_PATTERN \cup JS_FUNCTION_PATTERN \cup JS_ARROW_FUNCTION_PATTERN

\* the structural search of the language of the file finds no region
NoRegion(lang, text) ==
    IF lang = "python"
    THEN \A i \in 1..Len(text) : text[i] \notin PyHeaders \cup PyDefs
    ELSE IF lang = "java"
    THEN \A q \in 0..(Len(text) - 1) :
            ~(DeclaredAt(text, JavaTypeHeaders, q) /\ JavaOpenBrace(text, q) # -1)
    ELSE IF lang = "javascript"
    THEN \A q \in 0..(Len(text) - 1) :
            ~(DeclaredAt(text, JsHeaders, q) /\ JsOpenBrace(text, q) # -1)
    ELSE /\ ~\E i, j \in 1..Len(text) : i < j /\ text[i] = "<script>" /\ text[j] = "</script>"
         /\ ~\E i, j \in 1..Len(text) : i < j /\ text[i] = "<template>" /\ text[j] = "</template>"

\* C1: every chunk parse_file returns has 1 <= start_line <= end_line <=
\* total_lines, the number of lines of the text of the file.
C1_LinesWithinFile ==
    Returned =>
        \A i \in 1..Len(result.chunks) :
            LET c == result.chunks[i]
            IN  /\ 1 <= c.start_line
                /\ c.start_line <= c.end_line
                /\ c.end_line <= TotalLines(file.text)

\* C1 witness: a Java chunk whose brace span overran to the end of a text
\* that a newline ends, so that its end_line is the last line of the file.
C1_Witness ==
    /\ Returned
    /\ Language = "java"
    /\ Len(file.text) >= 3
    /\ file.text[Len(file.text)] = "\n"
    /\ \E i \in 1..Len(result.chunks) :
         LET c == result.chunks[i]
         IN  /\ c.chunk_type = "class"
             /\ c.content[Len(c.content)] = "\n"
             /\ c.end_line = TotalLines(file.text)
             /\ c.end_line > c.start_line

\* C2: parse_file returns at least one chunk for a readable file with a
\* supported extension whose text is not empty after trimming, and returns
\* the empty list, with no extractor invoked, for a file whose text is empty
\* or white space or that cannot be read.
C2_ChunkOrNothing ==
    pc = "done" =>
        /\ (/\ file.status = "ok"
            /\ PathSuffix(file.path) \in SUPPORTED_EXTENSIONS
            /\ StripNonEmpty(file.text))
           => (result.raised = "none" /\ Len(result.chunks) >= 1)
        /\ (file.status # "ok" \/ ~StripNonEmpty(file.text))
           => (result.raised = "none" /\ result.chunks = <<>> /\ result.invoked = "none")

\* C3: fallback law.  When the structural search of the language finds no
\* region in a file that is not empty, parse_file returns exactly one chunk:
\* of type 'file' ('component' for Vue), named by the stem of the file, with
\* the whole text as content, from line 1 to the last line.
C3_FallbackLaw ==
    (/\ Returned
     /\ file.status = "ok"
     /\ PathSuffix(file.path) \in SUPPORTED_EXTENSIONS
     /\ StripNonEmpty(file.text)
     /\ NoRegion(Language, file.text))
    => /\ Len(result.chunks) = 1
       /\ LET c == result.chunks[1]
          IN  /\ c.chunk_type = (IF Language = "vue" THEN "component" ELSE "file")
              /\ c.name = PathStem(file.path)
              /\ c.content = file.text
              /\ c.start_line = 1
              /\ c.end_line = TotalLines(file.text)

\* C3 witness: a Java file with a type declaration that no '{' follows, of
\* several lines, parsed to the one fallback chunk.
C3_Witness ==
    /\ Returned
    /\ Language = "java"
    /\ NoRegion(Language, file.text)
    /\ \E q \in 0..(Len(file.text) - 1) : DeclaredAt(file.text, JavaTypeHeaders, q)
    /\ Len(result.chunks) = 1
    /\ result.chunks[1].chunk_type = "file"
    /\ result.chunks[1].end_line >= 3

\* C4: parse_file never raises to its caller, whatever the path.
C4_NeverRaises == pc = "done" => result.raised = "none"

(***************************************************************************)
(* The nesting counter of the brace matcher, told position by position.    *)
(***************************************************************************)
\* the quote that opened the literal offset i lies in, scanning from p, ""
\* outside a literal: a quote that no backslash precedes opens a literal
\* outside one and closes the literal that the same quote opened
RECURSIVE LiteralAt(_, _, _)
LiteralAt(text, p, i) ==
    IF i < p THEN ""
    ELSE LET before == LiteralAt(text, p, i - 1)
             c == At(text, i)
             toggles == c \in {"\"", "'"} /\ (i = 0 \/ At(text, i - 1) # "\\")
         IN  IF ~toggles THEN before
             ELSE IF before = "" THEN c
             ELSE IF before = c THEN ""
             ELSE before

\* the braces from p to i that count: those outside the literals
CountedBraces(text, p, i, brace) ==
    {j \in p..i : At(text, j) = brace /\ LiteralAt(text, p, j) = ""}

\* the nesting counter after offset i
Nesting(text, p, i) ==
    Cardinality(CountedBraces(text, p, i, "{")) - Cardinality(CountedBraces(text, p, i, "}"))

\* the offsets of the '}' at which the counter is back to zero
Closers(text, p) ==
    {q \in p..(Len(text) - 1) :
        At(text, q) = "}" /\ LiteralAt(text, p, q) = "" /\ Nesting(text, p, q) = 0}

\* C5: find_matching_brace(text, p), with text[p] = '{', returns the offset
\* of the first '}' at which the nesting counter is back to zero, braces and
\* quotes counted as LiteralAt and Nesting tell; for { a "}" b } that is the
\* last offset, 10.
C5_FirstBalancingClose ==
    pc = "brace_done" =>
        /\ Closers(btext, bstart) # {} => bresult = Min(Closers(btext, bstart))
        /\ btext = ExampleBraceText => bresult = 10

\* C5 witness: the matcher has answered 10 for { a "}" b }, passing the '}'
\* inside the literal.
C5_Witness ==
    /\ pc = "brace_done"
    /\ btext = ExampleBraceText
    /\ bstart = 0
    /\ bresult = 10
    /\ At(btext, 5) = "}"

\* C6: when no '}' balances the opening brace before the end of the text,
\* find_matching_brace returns len(text) - 1 and the extractor still emits
\* the chunk of the declaration, from its start to the last character of
\* the file.
C6_OverrunToEndOfText ==
    (Returned /\ file.status = "ok" /\ Language \in {"java", "javascript"}) =>
        \A q \in 0..(Len(file.text) - 1) :
            LET heads == IF Language = "java" THEN JavaTypeHeaders ELSE JsHeaders
                b == IF Language = "java" THEN JavaOpenBrace(file.text, q)
                     ELSE JsOpenBrace(file.text, q)
            IN  (/\ DeclaredAt(file.text, heads, q)
                 /\ b # -1
                 /\ Closers(file.text, b) = {})
                => /\ find_matching_brace(file.text, b) = Len(file.text) - 1
                   /\ \E i \in 1..Len(result.chunks) :
                        /\ ~IsFallback(result.chunks[i])
                        /\ result.chunks[i].content
                             = SubSeq(file.text, DeclStart(file.text, q) + 1, Len(file.text))

\* C6 witness: a Java declaration whose body opens a quote that is never
\* closed, so that the '}' after it is not counted, parsed to a chunk that
\* ends with the file.
C6_Witness ==
    /\ Returned
    /\ Language = "java"
    /\ \E q \in 0..(Len(file.text) - 1) :
         LET b == JavaOpenBrace(file.text, q)
         IN  /\ DeclaredAt(file.text, JavaTypeHeaders, q)
             /\ b # -1
             /\ Closers(file.text, b) = {}
             /\ \E j \in (b + 1)..(Len(file.text) - 2) :
                  At(file.text, j) = "\"" /\ At(file.text, j + 1) = "}"
             /\ \E i \in 1..Len(result.chunks) :
                  /\ result.chunks[i].chunk_type = "class"
                  /\ result.chunks[i].content
                       = SubSeq(file.text, DeclStart(file.text, q) + 1, Len(file.text))

\* C7: chunk ids are unique over all the chunks of one run: no two chunks of
\* one file have the same id, and none of two files either.
C7_IdsUnique ==
    \A i, j \in 1..Len(all_chunks) :
        i # j => ChunkId(all_chunks[i]) # ChunkId(all_chunks[j])

\* the part of C7 about one file: no two chunks parse_file returns for a
\* file share name and start_line
IdsUniqueInFile ==
    Returned =>
        \A i, j \in 1..Len(result.chunks) :
            i # j => ~(/\ result.chunks[i].name = result.chunks[j].name
                       /\ result.chunks[i].start_line = result.chunks[j].start_line)

\* the number of line boundaries among the first n characters of a text
BreaksBefore(text, n) == Cardinality({i \in 1..n : text[i] \in LineBreaks})

\* C8: the content of every chunk is an unmodified slice of the text: for
\* Java, JavaScript and Vue the characters from the offset of start_line to
\* the offset of end_line, for Python the lines start_line..end_line (as
\* the file splits into lines), for a fallback chunk the whole text.
C8_ContentIsSlice ==
    Returned =>
        \A i \in 1..Len(result.chunks) :
            LET c == result.chunks[i]
            IN  IF IsFallback(c) THEN c.content = file.text
                ELSE IF c.language = "python"
                THEN \E a \in 0..Len(file.text) : \E b \in a..Len(file.text) :
                        /\ c.content = SubSeq(file.text, a + 1, b)
                        /\ (a = 0 \/ file.text[a] \in LineBreaks)
                        /\ (b = Len(file.text) \/ file.text[b + 1] \in LineBreaks)
                        /\ c.start_line = BreaksBefore(file.text, a) + 1
                        /\ c.end_line = BreaksBefore(file.text, b) + 1
                ELSE \E a \in 0..(Len(file.text) - 1) : \E b \in a..(Len(file.text) - 1) :
                        /\ c.content = SubSeq(file.text, a + 1, b + 1)
                        /\ c.start_line = CountNewlines(file.text, a) + 1
                        /\ c.end_line = CountNewlines(file.text, b) + 1

\* a line of Python text holds a function statement
PyIsDef(line) == ~PyLineBlank(line) /\ PyLineBody(line)[1] \in PyDefs

\* the statement of line i is a direct child of the class statement of line
\* h: it is indented deeper, and no line between them is indented less than
\* line i
PyDirectChildOf(lines, i, h) ==
    /\ h < i
    /\ ~PyLineBlank(lines[h])
    /\ PyLineBody(lines[h])[1] = "class A:"
    /\ PyLineIndent(lines[h]) < PyLineIndent(lines[i])
    /\ \A k \in (h + 1)..(i - 1) :
         PyLineBlank(lines[k]) \/ PyLineIndent(lines[k]) >= PyLineIndent(lines[i])

PyFunctionChunkAt(i) ==
    \E k \in 1..Len(result.chunks) :
        result.chunks[k].chunk_type = "function" /\ result.chunks[k].start_line = i

PySyntaxError(text) == ~PyWellFormed(PyPhysicalLines(text), 1, <<0>>, FALSE)

\* C11: when the Python source has a syntax error, parse_python recovers
\* nothing: it returns exactly one chunk, of type 'file', named by the stem
\* of the file, with the whole text as content, from line 1 to the last
\* line, and with metadata.parse_error set.
C11_SyntaxErrorFallback ==
    (Returned /\ result.invoked = "parse_python" /\ PySyntaxError(file.text))
    => /\ Len(result.chunks) = 1
       /\ LET c == result.chunks[1]
          IN  /\ c.chunk_type = "file"
              /\ c.name = PathStem(file.path)
              /\ c.content = file.text
              /\ c.start_line = 1
              /\ c.end_line = TotalLines(file.text)
              /\ DOMAIN c.metadata = {"parse_error"}
              /\ c.metadata.parse_error # ""

\* C11 witness: a complete function definition followed by a class header
\* that has no body; the function is not recovered, the file is one chunk.
C11_Witness ==
    /\ Returned
    /\ result.invoked = "parse_python"
    /\ file.text = <<"def f(): pass", "\n", "class A:", "\n">>
    /\ PySyntaxError(file.text)
    /\ Len(result.chunks) = 1
    /\ result.chunks[1].chunk_type = "file"
    /\ result.chunks[1].end_line = 2
    /\ "parse_error" \in DOMAIN result.chunks[1].metadata

\* the text holds an opening tag of the section with its closing tag after it
VueHasSection(text, section) ==
    \E i, j \in 1..Len(text) :
        i < j /\ text[i] = "<" \o section \o ">" /\ text[j] = "</" \o section \o ">"

\* the chunks of a list that have the given chunk_type
ChunksOfType(chunks, type) == {i \in 1..Len(chunks) : chunks[i].chunk_type = type}

IgnoredDirBelow(base, path) ==
    {k \in (Len(base) + 1)..Len(path) :
        /\ k > Len(base) + 1
        /\ k < Len(path)
        /\ path[k - 1] = "/" /\ path[k + 1] = "/"
        /\ path[k] \in {"node_modules", ".git", "__pycache__", ".venv", "venv",
                        "dist", "build", ".next", ".nuxt", "target", ".idea",
                        ".gradle", "out", "bin", ".settings"}}

\* C13: scan_files never descends into a directory whose name is in the
\* ignore set: no file of its result lies, at any depth, in a directory of
\* that name below the directory scanned.
C13_IgnoredDirsPruned ==
    pc # "scan" =>
        \A i \in 1..Len(files) : IgnoredDirBelow(base_path, files[i].path) = {}

\* C13 witness: the project directory holds node_modules/Stem.js and
\* src/build/Stem.py; the scan has returned, neither file is in its result,
\* and a file it did collect is.
C13_Witness ==
    /\ pc = "loop"
    /\ base_path = <<"/", "code", "/", "proj">>
    /\ \E f, g \in dir :
         /\ f.path = IgnoredDirJsPath
         /\ g.path \in {SubdirPyPath, BuildJsPath}
         /\ \A i \in 1..Len(files) : files[i] # f
         /\ \E i \in 1..Len(files) : files[i] = g

\* the extractor and the language the documentation gives an extension
DocumentedDispatch ==
    <<[ext |-> <<".py">>, extractor |-> "parse_python", language |-> "python"],
      [ext |-> <<".java">>, extractor |-> "parse_java", language |-> "java"],
      [ext |-> <<".vue">>, extractor |-> "parse_vue", language |-> "vue"],
      [ext |-> <<".js">>, extractor |-> "parse_javascript", language |-> "javascript"]>>

ConfiguredCodeBasePath == <<"/", "code">>

\* the offsets of the "/" that end the first component of path below root
TopLevelEnds(root, path) == {k \in (Len(root) + 2)..Len(path) : path[k] = "/"}

\* path lies below root
InsideRoot(root, path) ==
    /\ Len(path) > Len(root) + 1
    /\ SubSeq(path, 1, Len(root)) = root
    /\ path[Len(root) + 1] = "/"

\* C15: the project of a chunk is the name of the top-level directory of
\* its file relative to the configured codebase root, and is 'unknown'
\* exactly when the file lies outside that root.
C15_ProjectIsTopLevelDir ==
    Returned =>
        \A i \in 1..Len(result.chunks) :
            LET c == result.chunks[i]
                root == ConfiguredCodeBasePath
            IN  IF InsideRoot(root, file.path)
                THEN /\ TopLevelEnds(root, file.path) # {}
                     /\ c.project = SubSeq(file.path, Len(root) + 2,
                                           Min(TopLevelEnds(root, file.path)) - 1)
                     /\ c.project # <<"unknown">>
                ELSE c.project = <<"unknown">>

\* the attributes of a chunk the metadata record of the store repeats
RecordAttributes ==
    {"filepath", "language", "project", "chunk_type", "name", "start_line", "end_line"}

\* C16: of every retriever.add call of the indexing pipeline, ids,
\* documents, embeddings and metadatas have one length and, index by index,
\* belong to the same chunk; the metadata record holds filepath, language,
\* project, chunk_type, name, start_line and end_line with the values of the
\* chunk, every entry of the chunk's metadata, and no 'content'.
C16_FlatMetadataAligned ==
    \A n \in 1..Len(added) :
        LET call == added[n]
        IN  /\ Len(call.ids) = Len(call.documents)
            /\ Len(call.ids) = Len(call.embeddings)
            /\ Len(call.ids) = Len(call.metadatas)
            /\ Len(call.ids) >= 1
            /\ \A k \in 1..Len(call.ids) :
                 LET chunk == all_chunks[call.i + k]
                     meta == call.metadatas[k]
                 IN  /\ call.ids[k] = chunk.filepath \o <<"::">> \o chunk.name
                                        \o <<"::", ToString(chunk.start_line)>>
                     /\ call.documents[k] = chunk.content
                     /\ call.embeddings[k] = <<"embedding", chunk.content>>
                     /\ DOMAIN meta = RecordAttributes \cup DOMAIN chunk.metadata
                     /\ "content" \notin DOMAIN meta
                     /\ \A a \in RecordAttributes : meta[a] = chunk[a]
                     /\ \A a \in DOMAIN chunk.metadata : meta[a] = chunk.metadata[a]

\* C16 witness: a run has stored three chunks in two add calls, the second
\* of one chunk, a Vue section whose metadata entry is in its record.
C16_Witness ==
    /\ pc = "idle"
    /\ response # NoResponse
    /\ response.status = "success"
    /\ Len(added) = 2
    /\ Len(added[1].ids) = 2
    /\ \E k \in 1..Len(added[2].ids) :
         /\ all_chunks[added[2].i + k].metadata = [section |-> "script"]
         /\ added[2].metadatas[k].section = "script"
         /\ \E e \in store : e.id = added[2].ids[k] /\ e.metadata = added[2].metadatas[k]

\* the project name the documentation gives the requests of the model: the
\* given name without the characters that are not allowed, cut to fifty,
\* or the name of the directory when none is given
DocumentedProjectName(req) ==
    IF req.project_name = <<>> THEN <<"proj">>
    ELSE IF req.project_name = <<"x50", "B">> THEN <<"x50">>
    ELSE <<"B">>

\* the records of the store that an add call of the run has put there
WrittenByRun ==
    {e \in store : \E n \in 1..Len(added) : \E k \in 1..Len(added[n].ids) :
        /\ e.id = added[n].ids[k]
        /\ e.document = added[n].documents[k]
        /\ e.metadata = added[n].metadatas[k]}

\* C17: every chunk a run of index_codebase writes to the store has the
\* sanitized project name of the run as its project (the project_name of
\* the request if given, else the name of the directory), so that after the
\* run the records of that project are exactly the records the run wrote.
C17_ProjectOfRun ==
    /\ (pc \in {"chunking", "embedding", "storing"}
        \/ (response # NoResponse /\ response.status = "success")) =>
         project_name = DocumentedProjectName(request)
    /\ \A i \in 1..Len(all_chunks) : all_chunks[i].project = project_name
    /\ \A e \in WrittenByRun : e.metadata.project = project_name
    /\ (pc = "idle" /\ response # NoResponse /\ response.status = "success") =>
         /\ {e \in store : e.metadata.project = project_name} = WrittenByRun
         /\ has_project(store, project_name) <=> WrittenByRun # {}
         /\ count_by_project(store, project_name) = Cardinality(WrittenByRun)
         /\ delete_by_project(store, project_name) = store \ WrittenByRun

\* C17 witness: a run asked for with the name ' B! ' has finished; its
\* chunks, of files of the directory proj, are stored as project B.
C17_Witness ==
    /\ pc = "idle"
    /\ response # NoResponse
    /\ response.status = "success"
    /\ request.project_name = <<" ", "B", "!", " ">>
    /\ project_name = <<"B">>
    /\ WrittenByRun # {}
    /\ \A e \in WrittenByRun : e.metadata.project = <<"B">> /\ get_project_name(e.metadata.filepath) = <<"proj">>

\* a run of index_codebase is between its first statement and its answer
RunInProgress == pc \in {"chunking", "embedding", "storing"}

\* the step in which cancel_indexing answers a request
CancelAnswered == budget' = budget - 1 /\ request'.endpoint = "cancel"

\* C18: a cancel request while a run is in progress is answered
\* 'cancelling', and that run then does not finish with 'success': it stops
\* at its next cancellation check with HTTP 499, no chunk of the project is
\* left in the store and the progress state is reset.  A cancel request
\* while no run is in progress is answered 'not_indexing' and changes
\* nothing.
C18_Cancellation ==
    [][/\ CancelAnswered =>
            IF RunInProgress
            THEN response'.status = "cancelling" /\ is_cancelled(progress')
            ELSE /\ response'.status = "not_indexing"
                 /\ UNCHANGED <<progress, store>>
       /\ (RunInProgress /\ is_cancelled(progress) /\ ~CancelAnswered) =>
            /\ response' # NoResponse
            /\ response'.http = 499
            /\ count_by_project(store', project_name) = 0
            /\ progress' = ClearedProgress
            /\ pc' = "idle"]_vars

\* the step in which index_codebase takes up a request
IndexTakenUp == budget' = budget - 1 /\ request'.endpoint = "index"

\* the requests of the model that pass the checks of the path and of the
\* name: the project directory with a name that keeps a character
AcceptedRequest(req) == req.code_path = ProjDir /\ req.project_name # <<"!">>

\* the records of the store st that belong to the project
ChunksOfProject(st, project) == {e \in st : e.metadata.project = project}

\* C19: if the project has a chunk in the store and force is false,
\* index_codebase answers 'skipped' with chunks the number of the project's
\* records and indexed_files 0, and the store and the progress state stay
\* as they were; records of the project leave the store before re-indexing
\* only when force is true, and then all of them do.
C19_SkipUnlessForced ==
    [][/\ (IndexTakenUp /\ AcceptedRequest(request')) =>
            LET project == DocumentedProjectName(request')
                existing == ChunksOfProject(store, project)
            IN  /\ (existing # {} /\ ~request'.force) =>
                     /\ response' = [http |-> 200, status |-> "skipped", project |-> project,
                                     indexed_files |-> 0, chunks |-> Cardinality(existing)]
                     /\ UNCHANGED <<store, progress>>
                     /\ pc' = "idle"
                /\ (existing = {} \/ request'.force) =>
                     (response' = NoResponse \/ response'.status # "skipped")
                /\ request'.force => store' = store \ existing
                /\ ~request'.force => store' = store
       /\ (store \ store' # {}) => (IndexTakenUp /\ request'.force)]_vars

\* a request without force for a project that has two or more chunks in the
\* store has been answered 'skipped'
C19_Witness ==
    /\ pc = "idle"
    /\ response # NoResponse
    /\ response.status = "skipped"
    /\ response.chunks >= 2
    /\ response.chunks = Cardinality(ChunksOfProject(store, response.project))
    /\ ~request.force

\* the LLM fails on the request: the server is not reached, the API answers
\* another status than 200, or the exchange ends with a timeout or a
\* request error
LlmFailure(b) == ~b.connected \/ b.status # 200 \/ b.failure # "none"

EventsNamed(evs, name) == {i \in 1..Len(evs) : evs[i].event = name}

\* C20: when the LLM fails, /api/query answers 503 and /api/query/stream
\* emits an 'error' event and no 'done' event, and neither writes a log
\* entry; when the LLM does not fail, the stream emits its 'message'
\* events, one per chunk, and after them a single 'done' event, the last of
\* the stream.
C20_LlmFailureIsAnError ==
    [][/\ (budget' = budget - 1 /\ request'.endpoint = "query" /\ LlmFailure(llm')) =>
            /\ response'.http = 503
            /\ UNCHANGED query_logs
       /\ (pc \in {"streaming", "logging"} /\ LlmFailure(llm)) =>
            /\ UNCHANGED query_logs
            /\ EventsNamed(events', "done") = {}
            /\ pc' = "idle" => EventsNamed(events', "error") # {}
       /\ (pc = "logging" /\ pc' = "idle" /\ ~LlmFailure(llm)) =>
            /\ Len(events') = Len(llm.tokens) + 1
            /\ \A i \in 1..Len(llm.tokens) :
                 events'[i] = [event |-> "message", data |-> <<llm.tokens[i]>>]
            /\ EventsNamed(events', "done") = {Len(events')}
            /\ query_logs' = Append(query_logs, [question |-> request.question,
                                                 answer |-> llm.tokens, model |-> OllamaModel])]_vars

\* a line of Python text holds a class statement
PyIsClass(line) == ~PyLineBlank(line) /\ PyLineBody(line)[1] = "class A:"

\* the last line of the top-level statement that starts at line i: the last
\* line that is not blank before the next statement at top level
PyTopLevelEnd(lines, i) ==
    LET later == {k \in (i + 1)..Len(lines) : ~PyLineBlank(lines[k]) /\ PyLineIndent(lines[k]) = 0}
        stop == IF later = {} THEN Len(lines) + 1 ELSE Min(later)
        body == {k \in i..(stop - 1) : ~PyLineBlank(lines[k])}
    IN  CHOOSE k \in body : \A j \in body : j <= k

PyClassChunksAt(i) ==
    {k \in 1..Len(result.chunks) :
        result.chunks[k].chunk_type = "class" /\ result.chunks[k].start_line = i}

\* C22: in a Python file that parses, every class statement at top level
\* gets exactly one 'class' chunk, from the line of the statement to its
\* last line, with decorators and bases in its metadata, and a class
\* statement inside a class or inside a function gets no chunk.
C22_TopLevelClassesOnly ==
    (Returned /\ result.invoked = "parse_python" /\ ~PySyntaxError(file.text)) =>
        LET lines == PyPhysicalLines(file.text)
        IN  \A i \in 1..Len(lines) :
                PyIsClass(lines[i]) =>
                    IF PyLineIndent(lines[i]) = 0
                    THEN /\ Cardinality(PyClassChunksAt(i)) = 1
                         /\ \A k \in PyClassChunksAt(i) :
                              /\ result.chunks[k].end_line = PyTopLevelEnd(lines, i)
                              /\ {"decorators", "bases"} \subseteq DOMAIN result.chunks[k].metadata
                    ELSE PyClassChunksAt(i) = {}

\* the offset at which the brace matcher started at b ends: the first '}'
\* that balances, or the last offset of the text
MatcherEnd(text, b) == IF Closers(text, b) = {} THEN Len(text) - 1 ELSE Min(Closers(text, b))

\* the chunk c lies at the offsets a..e of the text and its line numbers
\* are those of the rule: one more than the newlines before the offset
LinesByRule(text, c, a, e) ==
    /\ c.content = SubSeq(text, a + 1, e + 1)
    /\ c.start_line = CountNewlines(text, a) + 1
    /\ c.end_line = CountNewlines(text, e) + 1

\* C23: one rule gives the line numbers of every chunk of every language:
\* start_line is one more than the number of newlines before the first
\* character of content in the text, end_line one more than the number
\* before its last character; for Java and JavaScript the first character
\* is the start of the match and the last the result of the brace matcher.
C23_OneLineRule ==
    (Returned /\ file.status = "ok") =>
        \A i \in 1..Len(result.chunks) :
            LET c == result.chunks[i]
                text == file.text
            IN  IF c.language \in {"java", "javascript"} /\ ~IsFallback(c)
                THEN \E q \in 0..(Len(text) - 1) :
                        LET heads == IF c.language = "java" THEN JavaTypeHeaders ELSE JsHeaders
                            b == IF c.language = "java" THEN JavaOpenBrace(text, q)
                                 ELSE JsOpenBrace(text, q)
                        IN  /\ DeclaredAt(text, heads, q)
                            /\ b # -1
                            /\ LinesByRule(text, c, DeclStart(text, q), MatcherEnd(text, b))
                ELSE \E a \in 0..(Len(text) - 1) : \E e \in a..(Len(text) - 1) :
                        LinesByRule(text, c, a, e)

\* the search that made a JavaScript chunk, told from the declaration its
\* content starts with: 1 class, 2 named function, 3 arrow function
JsGroup(c) ==
    LET head == c.content[SkipRun(c.content, 0, Whitespace) + 1]
    IN  IF head \in JS_CLASS_PATTERN THEN 1
        ELSE IF head \in JS_FUNCTION_PATTERN THEN 2
        ELSE 3

\* the offsets of the text at which the content of chunk c lies, on the
\* line the chunk says
JsOffsets(text, c) ==
    {a \in 0..(Len(text) - 1) :
        /\ a + Len(c.content) <= Len(text)
        /\ SubSeq(text, a + 1, a + Len(c.content)) = c.content
        /\ CountNewlines(text, a) + 1 = c.start_line}

\* C24: parse_javascript returns the class chunks first, then the chunks of
\* the named functions, then those of the arrow functions, each of the
\* three groups in the order of the offsets in the text; the groups are not
\* merged by position.
C24_GroupedByPattern ==
    (Returned /\ result.invoked = "parse_javascript" /\ ~IsFallback(result.chunks[1])) =>
        \A i, j \in 1..Len(result.chunks) :
            i < j =>
                LET ci == result.chunks[i]
                    cj == result.chunks[j]
                IN  /\ ci.chunk_type = (IF JsGroup(ci) = 1 THEN "class" ELSE "function")
                    /\ JsGroup(ci) <= JsGroup(cj)
                    /\ JsGroup(ci) = JsGroup(cj) =>
                         \E a \in JsOffsets(file.text, ci) : \E b \in JsOffsets(file.text, cj) : a < b

\* C24 witness: a named function on line 1 and a class on line 2: the class
\* chunk comes first although it lies later in the text.
C24_Witness ==
    /\ Returned
    /\ result.invoked = "parse_javascript"
    /\ file.text = <<"function A()", "{", "\n", "class A ", "{">>
    /\ Len(result.chunks) = 2
    /\ result.chunks[1].chunk_type = "class" /\ result.chunks[1].start_line = 2
    /\ result.chunks[2].chunk_type = "function" /\ result.chunks[2].start_line = 1

\* the declaration at q lies in the body of the declaration at q0: after
\* the '{' that opens it, not after the offset its matcher ends at, and in
\* no literal of the body; both have a '{' of their own, that of the inner
\* one in the body of the outer one too
NestedIn(text, heads, inner_heads, OpenBrace(_, _), q0, q) ==
    /\ q0 < q
    /\ DeclaredAt(text, heads, q0)
    /\ At(text, q) \in inner_heads
    /\ OpenBrace(text, q0) # -1
    /\ OpenBrace(text, q0) < q /\ q <= MatcherEnd(text, OpenBrace(text, q0))
    /\ LiteralAt(text, OpenBrace(text, q0), q) = ""
    /\ OpenBrace(text, q) # -1
    /\ OpenBrace(text, q) < MatcherEnd(text, OpenBrace(text, q0))

\* the result holds the chunk of the declaration at q0 and a chunk of the
\* declaration at q of its own; with both braces balanced the offsets and
\* the lines of the second lie within those of the first
OwnChunkWithin(text, OpenBrace(_, _), q0, q) ==
    LET a0 == DeclStart(text, q0)
        e0 == MatcherEnd(text, OpenBrace(text, q0))
        e == MatcherEnd(text, OpenBrace(text, q))
    IN  \E i, j \in 1..Len(result.chunks) : \E a \in 0..q :
            /\ i # j
            /\ LinesByRule(text, result.chunks[i], a0, e0)
            /\ \A k \in a..(q - 1) : At(text, k) \in Whitespace
            /\ LinesByRule(text, result.chunks[j], a, e)
            /\ (Closers(text, OpenBrace(text, q0)) # {} /\ Closers(text, OpenBrace(text, q)) # {}) =>
                 /\ a0 <= a /\ e <= e0
                 /\ result.chunks[i].start_line <= result.chunks[j].start_line
                 /\ result.chunks[j].end_line <= result.chunks[i].end_line

JsFunctionHeaders == JS_FUNCTION_PATTERN \cup JS_ARROW_FUNCTION_PATTERN

\* C25: the regex extractors do not leave out nested declarations: a
\* JavaScript function declared on a line of its own inside another
\* function, and a Java type declared inside another type, has a chunk of
\* its own beside the chunk of the outer one, and with balanced braces its
\* offsets and lines lie within those of the outer chunk.
C25_NestedDeclarationsKept ==
    (Returned /\ file.status = "ok") =>
        \A q0, q \in 0..(Len(file.text) - 1) :
            /\ (/\ Language = "javascript"
                /\ NestedIn(file.text, JsFunctionHeaders, JsFunctionHeaders, JsOpenBrace, q0, q)
                /\ DeclaredAt(file.text, JsFunctionHeaders, q))
               => OwnChunkWithin(file.text, JsOpenBrace, q0, q)
            /\ (/\ Language = "java"
                /\ NestedIn(file.text, JavaTypeHeaders, JavaTypeHeaders, JavaOpenBrace, q0, q))
               => OwnChunkWithin(file.text, JavaOpenBrace, q0, q)

\* the chunk types of a language
ChunkTypesOf(language) ==
    IF language = "python" THEN {"class", "function", "file"}
    ELSE IF language = "java" THEN {"class", "interface", "enum", "record", "file"}
    ELSE IF language = "javascript" THEN {"class", "function", "file"}
    ELSE {"script", "template", "component"}

StageRank(stage) ==
    IF stage = "scanning" THEN 1 ELSE IF stage = "embedding" THEN 2 ELSE IF stage = "storing" THEN 3 ELSE 0

\* C27: in every progress state 0 <= current <= total and 0 <= percent <=
\* 100, and percent is floor(100 * current / total) when total > 0 and 0
\* otherwise; within one run the stage only moves forward through
\* scanning, embedding, storing, and within a stage current does not
\* decrease.
C27_ProgressNumbers ==
    [][/\ 0 <= progress'.current /\ progress'.current <= progress'.total
       /\ 0 <= progress'.percent /\ progress'.percent <= 100
       /\ progress'.percent = (IF progress'.total > 0
                               THEN (100 * progress'.current) \div progress'.total
                               ELSE 0)
       /\ (RunInProgress /\ pc' \in {"chunking", "embedding", "storing"}) =>
            /\ StageRank(progress.stage) <= StageRank(progress'.stage)
            /\ progress.stage = progress'.stage => progress.current <= progress'.current]_vars

\* an index_codebase request has ended in one of the ways the handler itself
\* provides: success, skipped, or its HTTP 400 (no supported files, no
\* chunks) or 499 (cancelled)
IndexEndedByHandler ==
    /\ pc = "idle"
    /\ request # <<>>
    /\ request.endpoint = "index"
    /\ AcceptedRequest(request)
    /\ response.http \in {200, 400, 499}

\* C28: once an index_codebase request has ended by success, skipped or one
\* of its own HTTP errors, the progress reads is_indexing = false, current,
\* total and percent 0 and cancelled false; and is_indexing is true only
\* while a run is between its first update_progress and its end
C28_ProgressClearedAfterRun ==
    /\ IndexEndedByHandler =>
         /\ progress.is_indexing = FALSE
         /\ progress.current = 0 /\ progress.total = 0 /\ progress.percent = 0
         /\ is_cancelled(progress) = FALSE
    /\ progress.is_indexing => RunInProgress

\* a forced index request that the handler took up has just ended with one
\* of the handler's own errors
ForcedRequestFailed ==
    /\ (pc # "idle" \/ budget' = budget - 1)
    /\ pc' = "idle"
    /\ request'.endpoint = "index"
    /\ AcceptedRequest(request')
    /\ request'.force
    /\ response'.http \in {400, 499}

\* C29: a forced request that fails (no supported files, no parsed chunks,
\* cancellation) leaves its project with no chunk in the store, the earlier
\* index of the project being deleted before the scan; and no step of an
\* index request adds, removes or changes a chunk of another project
C29_ForceDeletesFirst ==
    [][/\ ForcedRequestFailed => ChunksOfProject(store', DocumentedProjectName(request')) = {}
       /\ (budget' = budget - 1 /\ request'.endpoint = "index" /\ AcceptedRequest(request') /\ request'.force) =>
            ChunksOfProject(store', DocumentedProjectName(request')) = {}
       /\ request'.endpoint = "index" =>
            \A e \in store \cup store' :
                e.metadata.project # DocumentedProjectName(request') => (e \in store <=> e \in store')]_vars

\* C29 witness: after a run that stored chunks for the project B, a forced
\* request for the project proj has found no supported file and was
\* answered 400; proj has no chunk in the store and B has its chunks
C29_Witness ==
    /\ pc = "idle"
    /\ request # <<>>
    /\ request.endpoint = "index" /\ request.force /\ request.project_name = <<>>
    /\ AcceptedRequest(request)
    /\ response.http = 400
    /\ ChunksOfProject(store, <<"proj">>) = {}
    /\ ChunksOfProject(store, <<"B">>) # {}

\* the model the server answers with: that of _llm, made on first use
ActiveModel(m) == IF m = "none" THEN settings_ollama_model ELSE m

\* the model of the active RAG chain, made on first use with the active LLM
ChainModel(chs, m) == IF chs = <<>> THEN ActiveModel(m) ELSE chs[Len(chs)].model

\* the requested model is in the list of installed models, with its tag or,
\* as Ollama lists name:latest, without one
InInstalledList(model, names) == \E m \in names : model = m \/ (model # <<>> /\ m = model \o <<":", "latest">>)

SwitchAnswered == budget' = budget - 1 /\ request'.endpoint = "switch"

\* C21: switch_model replaces the active LLM and RAG chain by those of the
\* requested model only when the model is in the list of installed models
\* that Ollama gives; it answers 404 when the model is not in the list and
\* 503 when Ollama cannot be reached, and then leaves the active model and
\* chain as they were; after a switch, a query and a status call answer
\* with the model of the last successful switch
C21_SwitchOnlyToInstalled ==
    [][/\ SwitchAnswered =>
            /\ response'.http = 200 =>
                  /\ request'.tags.reachable
                  /\ request'.tags.status = 200
                  /\ InInstalledList(request'.model, request'.tags.models)
                  /\ ActiveModel(llm_model') = request'.model
                  /\ ChainModel(chains', llm_model') = request'.model
            /\ ~request'.tags.reachable => response'.http = 503
            /\ (request'.tags.reachable /\ request'.tags.status = 200
                  /\ ~InInstalledList(request'.model, request'.tags.models)) => response'.http = 404
            /\ response'.http # 200 =>
                  /\ ActiveModel(llm_model') = ActiveModel(llm_model)
                  /\ ChainModel(chains', llm_model') = ChainModel(chains, llm_model)
       /\ (budget' = budget - 1 /\ request'.endpoint = "query") =>
            /\ response'.model = ActiveModel(llm_model)
            /\ ActiveModel(llm_model') = ActiveModel(llm_model)
       /\ (budget' = budget - 1 /\ request'.endpoint = "status") =>
            /\ response'.ollama_model = ActiveModel(llm_model)
            /\ ActiveModel(llm_model') = ActiveModel(llm_model)]_vars

\* C30: every retriever call of /api/query and of /api/query/stream asks for
\* as many results as the top_k of the request it serves
C30_TopKOfOwnRequest ==
    retrieval # <<>> => retrieval.n_results = retrieval.top_k
====
